---- MODULE Spec2Model ----
(***************************************************************************)
(* Model of VibeDashboard's usage-data pipeline (parser.js, utils.js,      *)
(* index.js, cli.js): merging raw usage records, filtering them to a       *)
(* period, deriving the summary, and the concurrent reading of sources.    *)
(*                                                                         *)
(* Data representation                                                     *)
(*  - A JavaScript object with optional fields is a function whose DOMAIN  *)
(*    is the set of the fields that are present; `x.f || 0` reads 0 for an *)
(*    absent field.                                                        *)
(*  - byModel / byDay are objects used as insertion-ordered maps: a        *)
(*    sequence of [key, val] entries with distinct keys, in insertion      *)
(*    order (the order Object.entries and Object.keys iterate in).         *)
(*  - A cost is a JavaScript number that may be fractional: it is an exact *)
(*    rational [n, d] in lowest terms (d > 0).  Token counts are integers. *)
(*    Arithmetic is exact: IEEE-754 rounding of the last bit is not        *)
(*    modelled.                                                            *)
(*  - An ISO date key "YYYY-MM-DD" is the number of its UTC day; a Date is *)
(*    [day, ms]: the UTC day and the millisecond within it.                *)
(*  - A function that may return one of its arguments returns             *)
(*    [ref, val]: ref is the position of the argument returned (the very   *)
(*    same object), or 0 for a newly built object.                         *)
(***************************************************************************)
EXTENDS Integers, Sequences, FiniteSets, TLC

VARIABLES
    dataArray,   \* mergeUsageData: the input sequence of records
    merged,      \* <<>> or <<[ref, val]>>: mergeUsageData(dataArray)
    nested,      \* <<>> or <<[ref, val]>>: mergeUsageData([mergeUsageData([A, B]), C])
    reversed,    \* <<>> or <<[ref, val]>>: mergeUsageData([C, B, A])
    data,        \* processData: the input record
    period,      \* processData: the period tag of the last call
    now,         \* the Date `new Date()` returned during the last call
    filtered,    \* <<>> or <<[ref, val]>>: filterByPeriod(data, period)
    summary,     \* <<>> or <<record>>: calculateSummary(filteredData)
    models,      \* <<>> or <<sequence>>: getModelBreakdown(filteredData)
    dailyUsage,  \* <<>> or <<sequence>>: getDailyUsage(filteredData)
    topModel,    \* <<>> or <<t>>: getTopModel(models), t being <<>> for null or <<entry>>
    labelKey,    \* <<>> or <<key>>: getPeriodLabelKey(configPeriod)
    limit,       \* getDailyUsage(data, days): the days given, <<>> for null or <<k>>
    recent,      \* <<>> or <<sequence>>: getDailyUsage(data, days)
    input,       \* validateData: the value given
    validation,  \* <<>> or <<[threw, isValid, errors]>>: validateData(input)
    raw,         \* transformCcusageFormat: rawData, the parsed content of a file
    transformed, \* <<>> or <<record>>: transformCcusageFormat(rawData)
    tag,         \* the period tag given to getPeriodRange and getPeriodLabelKey
    tagRange,    \* <<>> or <<[startDate, endDate, days]>>: getPeriodRange(tag, now)
    probe,       \* the date key given to isDateInRange
    inRange,     \* <<>> or <<boolean>>: isDateInRange(probe, tagRange)
    tagLabel,    \* <<>> or <<key>>: getPeriodLabelKey(tag)
    heap,        \* the objects allocated so far
    roots,       \* the references to the records: those of dataArray, then the results
    calls,       \* the calls made: [op, args, result, pre], pre the heap before the call
    readme,      \* the README file: <<>> when there is none, or <<content>>
    newText,     \* the content given to insertContent
    inserted,    \* <<>> or <<[original, result]>>: insertContent(original, newText)
    inits,       \* the runs of the init command: [has, success, before, after]
    argv,        \* the options given on the command line of `generate`
    configFile,  \* the config file: absent, badjson, or json with its value
    inputFile,   \* the input file: absent, badjson, or json with its value
    svgWritable, \* whether the SVG file can be written (mkdir and writeFile succeed)
    run,         \* generateDashboard: its position and its local variables
    svgFiles,    \* the paths of the SVG files written
    trace,       \* the steps of generateDashboard carried out, in order
    rawInput,    \* generateFromData: the record given as rawData
    genConfig,   \* generateFromData: mergedConfig
    gen,         \* generateFromData: its position and its local variables
    files,       \* reading sources: the content of each input path
    mode,        \* "parseMultiple" (parser.js) or "cliMerge" (cli.js merge command)
    slots,       \* Promise.all: per input path <<>> (pending) or <<value>> (fulfilled)
    completed,   \* the input-path indices in the order their reads completed
    outcome      \* <<>> (running), <<[ok |-> TRUE, merged |-> r]>> or <<[ok |-> FALSE]>>

vars == <<dataArray, merged, nested, reversed, data, period, now, filtered,
          summary, models, dailyUsage, topModel, labelKey, limit, recent,
          input, validation, raw, transformed,
          tag, tagRange, probe, inRange, tagLabel, heap, roots, calls,
          readme, newText, inserted, inits,
          argv, configFile, inputFile, svgWritable, run, svgFiles, trace,
          rawInput, genConfig, gen,
          files, mode, slots, completed, outcome>>

mergeVars == <<dataArray, merged, nested, reversed>>
processVars == <<data, period, now, filtered, summary, models, dailyUsage, topModel, labelKey>>
readVars == <<files, mode, slots, completed, outcome>>
dailyVars == <<limit, recent>>
\* the variables of the calls made apart from merging, processing and reading
validateVars == <<input, validation>>
transformVars == <<raw, transformed>>
periodVars == <<tag, tagRange, probe, inRange, tagLabel>>
heapVars == <<heap, roots, calls>>
updaterVars == <<readme, newText, inserted, inits>>
\* the variables of updater.js, index.js and cli.js
dashVars == <<argv, configFile, inputFile, svgWritable, run, svgFiles, trace>>
genVars == <<rawInput, genConfig, gen>>
toolVars == <<updaterVars, dashVars, genVars>>
callVars == <<dailyVars, validateVars, transformVars, periodVars, heapVars, toolVars>>

----------------------------------------------------------------------------
(* Bounds of the model *)

\* costs of the input records are 0..MaxCost
MaxCost == 2
\* token counts of the input records are 0..MaxTokens (and small multiples)
MaxTokens == 2
\* the limits given to getDailyUsage are 0..MaxDays
MaxDays == 3
\* the calls followed on the heap are sequences of at most MaxCalls calls
MaxCalls == 2
\* a document is made of at most MaxPieces pieces (a marker, a line of text, a
\* broken marker)
MaxPieces == 4
\* the init command is run at most MaxInits times on a file
MaxInits == 2

----------------------------------------------------------------------------
(* JavaScript numbers: exact rationals *)

RECURSIVE GCD(_, _)
GCD(a, b) == IF b = 0 THEN a ELSE GCD(b, a % b)

Abs(x) == IF x < 0 THEN -x ELSE x

\* the rational n/d (d > 0) in lowest terms
Q(n, d) ==
    LET g == GCD(Abs(n), d)
    IN  [n |-> n \div g, d |-> d \div g]

QInt(i) == [n |-> i, d |-> 1]

QZero == QInt(0)

\* a + b
QAdd(a, b) == Q(a.n * b.d + b.n * a.d, a.d * b.d)

\* a * b
QMul(a, b) == Q(a.n * b.n, a.d * b.d)

\* a / b, for b > 0
QDiv(a, b) == Q(a.n * b.d, a.d * b.n)

\* Math.round(a): the nearest integer, a half rounding up
MathRound(a) == (2 * a.n + a.d) \div (2 * a.d)

----------------------------------------------------------------------------
(* JavaScript objects *)

\* the object {}
EmptyObj == <<>>

Has(obj, f) == f \in DOMAIN obj

\* obj.f || 0, for a token count
NumOr0(obj, f) == IF Has(obj, f) THEN obj[f] ELSE 0

\* obj.f || 0, for a cost
CostOr0(obj, f) == IF Has(obj, f) THEN obj[f] ELSE QZero

\* Object.keys(map), as a set
Keys(map) == {map[i].key : i \in 1..Len(map)}

\* map[k] is defined
MapHas(map, k) == \E i \in 1..Len(map) : map[i].key = k

\* map[k]
MapGet(map, k) == map[CHOOSE i \in 1..Len(map) : map[i].key = k].val

\* map[k] = v: an existing key keeps its place, a new key goes last
MapSet(map, k, v) ==
    IF MapHas(map, k)
    THEN [i \in 1..Len(map) |->
            IF map[i].key = k THEN [key |-> k, val |-> v] ELSE map[i]]
    ELSE Append(map, [key |-> k, val |-> v])

TokenFields == <<"totalInputTokens", "totalOutputTokens",
                 "totalCacheCreationInputTokens", "totalCacheReadInputTokens">>

\* the literal { totalCost: 0, total...Tokens: 0, byModel: {}, byDay: {} }
ZeroRecord ==
    [totalCost |-> QZero,
     totalInputTokens |-> 0,
     totalOutputTokens |-> 0,
     totalCacheCreationInputTokens |-> 0,
     totalCacheReadInputTokens |-> 0,
     byModel |-> EmptyObj,
     byDay |-> EmptyObj]

----------------------------------------------------------------------------
(* parser.js: mergeUsageData *)

\* the body of the loop over Object.entries(data.byModel), with all its
\* additions replaced by assignments: a later source overwrites an earlier one
MergeModelEntryOverwrite(byModel, e) ==
    MapSet(byModel, e.key,
           [cost |-> CostOr0(e.val, "cost"),
            inputTokens |-> NumOr0(e.val, "inputTokens"),
            outputTokens |-> NumOr0(e.val, "outputTokens")])

\* the body of the loop over Object.entries(data.byModel)
MergeModelEntry(byModel, e) ==
    LET init == IF ~MapHas(byModel, e.key)
                THEN MapSet(byModel, e.key,
                            [cost |-> QZero, inputTokens |-> 0, outputTokens |-> 0])
                ELSE byModel
        old == MapGet(init, e.key)
    IN  MapSet(init, e.key,
               [cost |-> QAdd(old.cost, CostOr0(e.val, "cost")),
                inputTokens |-> old.inputTokens + NumOr0(e.val, "inputTokens"),
                outputTokens |-> old.outputTokens + NumOr0(e.val, "outputTokens")])

\* the body of the loop over Object.entries(data.byDay), deduplicating: a date
\* already merged is kept as it is
MergeDayEntryKeepFirst(byDay, e) ==
    IF MapHas(byDay, e.key)
    THEN byDay
    ELSE MapSet(byDay, e.key,
                [cost |-> CostOr0(e.val, "cost"), tokens |-> NumOr0(e.val, "tokens")])

\* the body of the loop over Object.entries(data.byDay)
MergeDayEntry(byDay, e) ==
    LET init == IF ~MapHas(byDay, e.key)
                THEN MapSet(byDay, e.key, [cost |-> QZero, tokens |-> 0])
                ELSE byDay
        old == MapGet(init, e.key)
    IN  MapSet(init, e.key,
               [cost |-> QAdd(old.cost, CostOr0(e.val, "cost")),
                tokens |-> old.tokens + NumOr0(e.val, "tokens")])

RECURSIVE MergeModels(_, _, _)
\* for (const [model, stats] of Object.entries(data.byModel)), from entry i
MergeModels(byModel, entries, i) ==
    IF i > Len(entries) THEN byModel
    ELSE MergeModels(MergeModelEntry(byModel, entries[i]), entries, i + 1)

RECURSIVE MergeDays(_, _, _)
\* for (const [date, stats] of Object.entries(data.byDay)), from entry i
MergeDays(byDay, entries, i) ==
    IF i > Len(entries) THEN byDay
    ELSE MergeDays(MergeDayEntry(byDay, entries[i]), entries, i + 1)

\* the body of `for (const data of dataArray)`
MergeOne(m, d) ==
    [totalCost |-> QAdd(m.totalCost, CostOr0(d, "totalCost")),
     totalInputTokens |-> m.totalInputTokens + NumOr0(d, "totalInputTokens"),
     totalOutputTokens |-> m.totalOutputTokens + NumOr0(d, "totalOutputTokens"),
     totalCacheCreationInputTokens |->
        m.totalCacheCreationInputTokens + NumOr0(d, "totalCacheCreationInputTokens"),
     totalCacheReadInputTokens |->
        m.totalCacheReadInputTokens + NumOr0(d, "totalCacheReadInputTokens"),
     byModel |-> IF Has(d, "byModel") THEN MergeModels(m.byModel, d.byModel, 1)
                 ELSE m.byModel,
     byDay |-> IF Has(d, "byDay") THEN MergeDays(m.byDay, d.byDay, 1)
               ELSE m.byDay]

RECURSIVE MergeLoop(_, _, _)
\* for (const data of dataArray), from element i
MergeLoop(m, arr, i) ==
    IF i > Len(arr) THEN m
    ELSE MergeLoop(MergeOne(m, arr[i]), arr, i + 1)

\* mergeUsageData without the single-element return: one record is merged
\* into a new object like any other
MergeUsageDataAlwaysLoop(arr) ==
    IF Len(arr) = 0
    THEN [ref |-> 0, val |-> ZeroRecord]
    ELSE [ref |-> 0, val |-> MergeLoop(ZeroRecord, arr, 1)]

\* mergeUsageData(dataArray)
MergeUsageData(arr) ==
    IF Len(arr) = 0
    THEN [ref |-> 0, val |-> ZeroRecord]
    ELSE IF Len(arr) = 1
         THEN [ref |-> 1, val |-> arr[1]]
         ELSE [ref |-> 0, val |-> MergeLoop(ZeroRecord, arr, 1)]

----------------------------------------------------------------------------
(* utils.js: getPeriodRange, isDateInRange *)

\* the millisecond of the day set by setUTCHours(23, 59, 59, 999)
EndOfDayMs == ((23 * 60 + 59) * 60 + 59) * 1000 + 999

\* new Date(date) for an ISO date key: midnight UTC of that day
ParseDate(date) == [day |-> date, ms |-> 0]

\* a <= b on Dates
DateLeq(a, b) == a.day < b.day \/ (a.day = b.day /\ a.ms <= b.ms)

\* getPeriodRange with the week and the month starting one day too early
GetPeriodRangeOneDayMore(p, referenceDate) ==
    LET endDate == [day |-> referenceDate.day, ms |-> EndOfDayMs]
        startDate == [day |-> referenceDate.day, ms |-> 0]
    IN  CASE p = "day" ->
               [startDate |-> <<startDate>>, endDate |-> endDate, days |-> <<1>>]
          [] p = "week" ->
               [startDate |-> <<[startDate EXCEPT !.day = @ - 7]>>,
                endDate |-> endDate, days |-> <<7>>]
          [] p = "month" ->
               [startDate |-> <<[startDate EXCEPT !.day = @ - 30]>>,
                endDate |-> endDate, days |-> <<30>>]
          [] OTHER ->
               [startDate |-> <<>>, endDate |-> endDate, days |-> <<>>]

\* getPeriodRange(period, referenceDate); a null startDate or days is <<>>
GetPeriodRange(p, referenceDate) ==
    LET endDate == [day |-> referenceDate.day, ms |-> EndOfDayMs]
        startDate == [day |-> referenceDate.day, ms |-> 0]
    IN  CASE p = "day" ->
               [startDate |-> <<startDate>>, endDate |-> endDate, days |-> <<1>>]
          [] p = "week" ->
               [startDate |-> <<[startDate EXCEPT !.day = @ - 6]>>,
                endDate |-> endDate, days |-> <<7>>]
          [] p = "month" ->
               [startDate |-> <<[startDate EXCEPT !.day = @ - 29]>>,
                endDate |-> endDate, days |-> <<30>>]
          [] OTHER ->
               [startDate |-> <<>>, endDate |-> endDate, days |-> <<>>]

\* isDateInRange testing the end of the range only
IsDateInRangeNoStart(date, range) ==
    IF range.startDate = <<>>
    THEN TRUE
    ELSE DateLeq(ParseDate(date), range.endDate)

\* isDateInRange(date, range), for a date key
IsDateInRange(date, range) ==
    IF range.startDate = <<>>
    THEN TRUE
    ELSE LET d == ParseDate(date)
         IN  DateLeq(range.startDate[1], d) /\ DateLeq(d, range.endDate)

----------------------------------------------------------------------------
(* parser.js: filterByPeriod *)

\* the body of the loop over Object.entries(data.byDay), adding the cost of
\* every day to totalCost, in range or not
FilterDayEntryCountAll(acc, e, range) ==
    [byDay |-> IF IsDateInRange(e.key, range)
               THEN MapSet(acc.byDay, e.key, e.val) ELSE acc.byDay,
     totalCost |-> QAdd(acc.totalCost, CostOr0(e.val, "cost"))]

\* the body of the loop over Object.entries(data.byDay); acc is
\* [byDay, totalCost] of `filtered`, and { ...stats } a copy equal to stats
FilterDayEntry(acc, e, range) ==
    IF IsDateInRange(e.key, range)
    THEN [byDay |-> MapSet(acc.byDay, e.key, e.val),
          totalCost |-> QAdd(acc.totalCost, CostOr0(e.val, "cost"))]
    ELSE acc

RECURSIVE FilterDays(_, _, _, _)
\* for (const [date, stats] of Object.entries(data.byDay)), from entry i
FilterDays(acc, entries, i, range) ==
    IF i > Len(entries) THEN acc
    ELSE FilterDays(FilterDayEntry(acc, entries[i], range), entries, i + 1, range)

\* totalOriginalCost taken to be 1 whatever data.totalCost is
TotalOriginalCostAlwaysOne(d) == QInt(1)

\* const totalOriginalCost = data.totalCost || 1
TotalOriginalCost(d) ==
    IF Has(d, "totalCost") /\ d.totalCost # QZero THEN d.totalCost ELSE QInt(1)

\* the scaled token count truncated (Math.floor) where the code rounds
ScaleTokensFloor(obj, f, ratio) ==
    LET x == QMul(QInt(NumOr0(obj, f)), ratio) IN x.n \div x.d

\* Math.round((tokens || 0) * filteredCostRatio)
ScaleTokens(obj, f, ratio) == MathRound(QMul(QInt(NumOr0(obj, f)), ratio))

RECURSIVE FilterModels(_, _, _, _)
\* for (const [model, stats] of Object.entries(data.byModel)), from entry i
FilterModels(byModel, entries, i, ratio) ==
    IF i > Len(entries) THEN byModel
    ELSE FilterModels(
            MapSet(byModel, entries[i].key,
                   [cost |-> QMul(CostOr0(entries[i].val, "cost"), ratio),
                    inputTokens |-> ScaleTokens(entries[i].val, "inputTokens", ratio),
                    outputTokens |-> ScaleTokens(entries[i].val, "outputTokens", ratio)]),
            entries, i + 1, ratio)

\* the record built with byModel and byDay only where the input has them
FilterRebuildSparse(d, p, today) ==
    LET range == GetPeriodRange(p, today)
        days == IF Has(d, "byDay")
                THEN FilterDays([byDay |-> EmptyObj, totalCost |-> QZero],
                                d.byDay, 1, range)
                ELSE [byDay |-> EmptyObj, totalCost |-> QZero]
        filteredCostRatio == QDiv(days.totalCost, TotalOriginalCost(d))
    IN  [totalCost |-> days.totalCost,
         totalInputTokens |-> ScaleTokens(d, "totalInputTokens", filteredCostRatio),
         totalOutputTokens |-> ScaleTokens(d, "totalOutputTokens", filteredCostRatio),
         totalCacheCreationInputTokens |->
            ScaleTokens(d, "totalCacheCreationInputTokens", filteredCostRatio),
         totalCacheReadInputTokens |->
            ScaleTokens(d, "totalCacheReadInputTokens", filteredCostRatio)]
        @@ (IF Has(d, "byModel")
            THEN "byModel" :> FilterModels(EmptyObj, d.byModel, 1, filteredCostRatio)
            ELSE EmptyObj)
        @@ (IF Has(d, "byDay") THEN "byDay" :> days.byDay ELSE EmptyObj)

\* filterByPeriod below its `period === 'all'` test: the record built from the
\* days in range
FilterRebuild(d, p, today) ==
    LET range == GetPeriodRange(p, today)
        days == IF Has(d, "byDay")
                THEN FilterDays([byDay |-> EmptyObj, totalCost |-> QZero],
                                d.byDay, 1, range)
                ELSE [byDay |-> EmptyObj, totalCost |-> QZero]
        filteredCostRatio == QDiv(days.totalCost, TotalOriginalCost(d))
    IN  [totalCost |-> days.totalCost,
         totalInputTokens |-> ScaleTokens(d, "totalInputTokens", filteredCostRatio),
         totalOutputTokens |-> ScaleTokens(d, "totalOutputTokens", filteredCostRatio),
         totalCacheCreationInputTokens |->
            ScaleTokens(d, "totalCacheCreationInputTokens", filteredCostRatio),
         totalCacheReadInputTokens |->
            ScaleTokens(d, "totalCacheReadInputTokens", filteredCostRatio),
         byModel |-> IF Has(d, "byModel")
                     THEN FilterModels(EmptyObj, d.byModel, 1, filteredCostRatio)
                     ELSE EmptyObj,
         byDay |-> days.byDay]

\* filterByPeriod without the `period === 'all'` return: every period rebuilds
\* the record from its days
FilterByPeriodNoIdentity(d, p, today) ==
    [ref |-> 0, val |-> FilterRebuild(d, p, today)]

\* filterByPeriod(data, period), `today` being the `new Date()` of its
\* getPeriodRange(period) call
FilterByPeriod(d, p, today) ==
    IF p = "all"
    THEN [ref |-> 1, val |-> d]
    ELSE [ref |-> 0, val |-> FilterRebuild(d, p, today)]

----------------------------------------------------------------------------
(* parser.js: calculateSummary, processData *)

\* calculateSummary counting only the input and output tokens
CalculateSummaryNoCache(d) ==
    LET totalTokens == NumOr0(d, "totalInputTokens") + NumOr0(d, "totalOutputTokens")
        totalCost == CostOr0(d, "totalCost")
        byDay == IF Has(d, "byDay") THEN d.byDay ELSE EmptyObj
        periodDays == IF Len(byDay) # 0 THEN Len(byDay) ELSE 1
    IN  [totalTokens |-> totalTokens,
         totalInputTokens |-> NumOr0(d, "totalInputTokens"),
         totalOutputTokens |-> NumOr0(d, "totalOutputTokens"),
         totalCacheCreation |-> NumOr0(d, "totalCacheCreationInputTokens"),
         totalCacheRead |-> NumOr0(d, "totalCacheReadInputTokens"),
         totalCost |-> totalCost,
         dailyAverage |-> [tokens |-> MathRound(Q(totalTokens, periodDays)),
                           cost |-> QDiv(totalCost, QInt(periodDays))],
         periodDays |-> periodDays]

\* calculateSummary(data)
CalculateSummary(d) ==
    LET totalInputTokens == NumOr0(d, "totalInputTokens")
        totalOutputTokens == NumOr0(d, "totalOutputTokens")
        totalCacheCreation == NumOr0(d, "totalCacheCreationInputTokens")
        totalCacheRead == NumOr0(d, "totalCacheReadInputTokens")
        totalTokens == totalInputTokens + totalOutputTokens
                       + totalCacheCreation + totalCacheRead
        totalCost == CostOr0(d, "totalCost")
        byDay == IF Has(d, "byDay") THEN d.byDay ELSE EmptyObj
        periodDays == IF Len(byDay) # 0 THEN Len(byDay) ELSE 1
    IN  [totalTokens |-> totalTokens,
         totalInputTokens |-> totalInputTokens,
         totalOutputTokens |-> totalOutputTokens,
         totalCacheCreation |-> totalCacheCreation,
         totalCacheRead |-> totalCacheRead,
         totalCost |-> totalCost,
         dailyAverage |-> [tokens |-> MathRound(Q(totalTokens, periodDays)),
                           cost |-> QDiv(totalCost, QInt(periodDays))],
         periodDays |-> periodDays]

----------------------------------------------------------------------------
(* utils.js: calculatePercentage, shortenModelName, getPeriodLabelKey;
   parser.js: getModelBreakdown, getDailyUsage, getTopModel *)

\* Number(x.toFixed(0)): the nearest integer, a half rounding away from zero
ToFixed0(a) ==
    IF a.n >= 0
    THEN (2 * a.n + a.d) \div (2 * a.d)
    ELSE -((2 * (-a.n) + a.d) \div (2 * a.d))

\* calculatePercentage without the factor 100
CalculatePercentageNoScale(value, total) ==
    IF total = QZero
    THEN 0
    ELSE ToFixed0(QDiv(value, total))

\* calculatePercentage(value, total, 0), for total >= 0
CalculatePercentage(value, total) ==
    IF total = QZero
    THEN 0
    ELSE ToFixed0(QMul(QDiv(value, total), QInt(100)))

\* shortenModelName(modelName): the model names of this model have no '-', so
\* the pattern does not match and the last two '-'-separated parts are the
\* name itself
ShortenModelName(modelName) ==
    IF modelName = "" THEN "unknown" ELSE modelName

\* a < b
QLess(a, b) == a.n * b.d < b.n * a.d

\* the sort by cost that puts the later of two entries of equal cost first
SortByCostTiesReversed(entries) ==
    LET rank(i) == Cardinality({j \in 1..Len(entries) :
                        \/ QLess(entries[i].cost, entries[j].cost)
                        \/ (entries[j].cost = entries[i].cost /\ j > i)}) + 1
    IN  [k \in 1..Len(entries) |-> entries[CHOOSE i \in 1..Len(entries) : rank(i) = k]]

\* models.sort((a, b) => b.cost - a.cost): Array.prototype.sort is stable, so
\* an entry goes after the entries of greater cost and after the earlier
\* entries of equal cost
SortByCost(entries) ==
    LET rank(i) == Cardinality({j \in 1..Len(entries) :
                        \/ QLess(entries[i].cost, entries[j].cost)
                        \/ (entries[j].cost = entries[i].cost /\ j < i)}) + 1
    IN  [k \in 1..Len(entries) |-> entries[CHOOSE i \in 1..Len(entries) : rank(i) = k]]

\* the entry that the map callback of getModelBreakdown builds for [name, stats]
BreakdownEntry(e, totalCost) ==
    [name |-> e.key,
     shortName |-> ShortenModelName(e.key),
     cost |-> CostOr0(e.val, "cost"),
     inputTokens |-> NumOr0(e.val, "inputTokens"),
     outputTokens |-> NumOr0(e.val, "outputTokens"),
     percentage |-> CalculatePercentage(CostOr0(e.val, "cost"), totalCost)]

\* getModelBreakdown(data)
GetModelBreakdown(d) ==
    LET byModel == IF Has(d, "byModel") THEN d.byModel ELSE EmptyObj
        totalCost == CostOr0(d, "totalCost")
    IN  SortByCost([i \in 1..Len(byModel) |-> BreakdownEntry(byModel[i], totalCost)])

\* the sort by date that puts the earlier date first
SortByDateAscending(entries) ==
    LET rank(i) == Cardinality({j \in 1..Len(entries) :
                        \/ entries[j].date < entries[i].date
                        \/ (entries[j].date = entries[i].date /\ j < i)}) + 1
    IN  [k \in 1..Len(entries) |-> entries[CHOOSE i \in 1..Len(entries) : rank(i) = k]]

\* dailyUsage.sort((a, b) => new Date(b.date) - new Date(a.date)): the later
\* date first, entries of the same date in their order
SortByDate(entries) ==
    LET rank(i) == Cardinality({j \in 1..Len(entries) :
                        \/ entries[j].date > entries[i].date
                        \/ (entries[j].date = entries[i].date /\ j < i)}) + 1
    IN  [k \in 1..Len(entries) |-> entries[CHOOSE i \in 1..Len(entries) : rank(i) = k]]

\* the entry that the map callback of getDailyUsage builds for [date, stats]
DailyEntry(e) ==
    [date |-> e.key,
     tokens |-> NumOr0(e.val, "tokens"),
     cost |-> CostOr0(e.val, "cost")]

\* getDailyUsage(data, days): days is <<>> for null, <<k>> for the number k
GetDailyUsage(d, days) ==
    LET byDay == IF Has(d, "byDay") THEN d.byDay ELSE EmptyObj
        sorted == SortByDate([i \in 1..Len(byDay) |-> DailyEntry(byDay[i])])
    IN  IF days # <<>> /\ days[1] > 0
        THEN SubSeq(sorted, 1, IF days[1] < Len(sorted) THEN days[1] ELSE Len(sorted))
        ELSE sorted

\* getTopModel(models): <<>> for null, <<models[0]>> otherwise
GetTopModel(ms) ==
    IF Len(ms) = 0 THEN <<>> ELSE <<ms[1]>>

\* getPeriodLabelKey(period): labels[period] || 'allTime'.  labels is an
\* object literal, so labels[period] also finds the members it inherits from
\* Object.prototype, which are functions and so truthy; the result is then
\* that function, written here as the string naming it.
GetPeriodLabelKey(p) ==
    CASE p = "day" -> "today"
      [] p = "week" -> "thisWeek"
      [] p = "month" -> "thisMonth"
      [] p = "all" -> "allTime"
      [] p = "constructor" -> "function Object"
      [] p = "toString" -> "function toString"
      [] OTHER -> "allTime"

----------------------------------------------------------------------------
(* parser.js: validateData, on arbitrary JavaScript values *)

\* A JavaScript value is a record with its kind and what validateData can tell
\* of it; an object carries its own properties as `fields`.
JsNull == [kind |-> "null"]
JsUndefined == [kind |-> "undefined"]
JsNaN == [kind |-> "number", nan |-> TRUE, num |-> 0]
JsNumber(n) == [kind |-> "number", nan |-> FALSE, num |-> n]
JsString(str) == [kind |-> "string", str |-> str]
JsBoolean(b) == [kind |-> "boolean", b |-> b]
JsArray == [kind |-> "array"]
JsFunction == [kind |-> "function"]
JsObject(fields) == [kind |-> "object", fields |-> fields]

\* typeof v
Typeof(v) ==
    CASE v.kind \in {"null", "array", "object"} -> "object"
      [] OTHER -> v.kind

\* ToBoolean(v): what `!v`, `v && ...` and `... || v` test
Truthy(v) ==
    CASE v.kind \in {"null", "undefined"} -> FALSE
      [] v.kind = "number" -> ~v.nan /\ v.num # 0
      [] v.kind = "string" -> v.str # ""
      [] v.kind = "boolean" -> v.b
      [] OTHER -> TRUE

\* Array.isArray(v)
IsArray(v) == v.kind = "array"

\* reading a property of null or undefined throws a TypeError
ReadThrows(v) == v.kind \in {"null", "undefined"}

\* v.f, for v an object, an array or a function: undefined unless v has f
Get(v, f) ==
    IF v.kind = "object" /\ Has(v.fields, f) THEN v.fields[f] ELSE JsUndefined

\* errors.push(msg)
Push(errors, msg) == Append(errors, msg)

\* if (cond) errors.push(msg)
PushIf(errors, cond, msg) == IF cond THEN Push(errors, msg) ELSE errors

\* the two checks of the ccusage format
CheckCcusage(v) ==
    LET e1 == PushIf(<<>>, Truthy(Get(v, "daily")) /\ ~IsArray(Get(v, "daily")),
                     "daily must be an array")
    IN  PushIf(e1, Truthy(Get(v, "totals")) /\ Typeof(Get(v, "totals")) # "object",
               "totals must be an object")

\* the three checks of the internal format
CheckInternal(v) ==
    LET e1 == PushIf(<<>>, Typeof(Get(v, "totalCost")) # "number",
                     "totalCost must be a number")
        e2 == PushIf(e1, Truthy(Get(v, "byModel")) /\ Typeof(Get(v, "byModel")) # "object",
                     "byModel must be an object")
    IN  PushIf(e2, Truthy(Get(v, "byDay")) /\ Typeof(Get(v, "byDay")) # "object",
               "byDay must be an object")

\* validateData accepting every value whose typeof is 'object', null included
ValidateDataNoNullTest(v) ==
    IF Typeof(v) # "object"
    THEN [threw |-> FALSE, isValid |-> FALSE, errors |-> Push(<<>>, "Data must be an object")]
    ELSE IF ReadThrows(v)
    THEN [threw |-> TRUE, isValid |-> FALSE, errors |-> <<>>]
    ELSE LET isCcusageFormat == IsArray(Get(v, "daily")) \/ Truthy(Get(v, "totals"))
             errors == IF isCcusageFormat THEN CheckCcusage(v) ELSE CheckInternal(v)
         IN  [threw |-> FALSE, isValid |-> Len(errors) = 0, errors |-> errors]

\* validateData(data): the result, or threw when an exception leaves the call
ValidateData(v) ==
    IF ~Truthy(v) \/ Typeof(v) # "object"
    THEN [threw |-> FALSE, isValid |-> FALSE, errors |-> Push(<<>>, "Data must be an object")]
    ELSE IF ReadThrows(v)
    THEN [threw |-> TRUE, isValid |-> FALSE, errors |-> <<>>]
    ELSE LET isCcusageFormat == IsArray(Get(v, "daily")) \/ Truthy(Get(v, "totals"))
             errors == IF isCcusageFormat THEN CheckCcusage(v) ELSE CheckInternal(v)
         IN  [threw |-> FALSE, isValid |-> Len(errors) = 0, errors |-> errors]

----------------------------------------------------------------------------
(* Objects and references: the functions of parser.js on a heap *)

\* The heap is the sequence of the objects allocated so far; the reference to
\* an object is the index of its cell.  A record cell holds the scalar fields
\* and, for byModel and byDay, the reference to a map cell; a map cell holds
\* the [key, val] items in insertion order, val being the reference to an
\* entry cell; an entry cell holds the fields of a stats object or of an
\* element of a result array; an array cell holds references to its elements.
RecordCell(fields) == [kind |-> "record", fields |-> fields]
MapCell(items) == [kind |-> "map", items |-> items]
EntryCell(stats) == [kind |-> "entry", stats |-> stats]
ArrayCell(items) == [kind |-> "array", items |-> items]

MapFields == {"byModel", "byDay"}

RECURSIVE StoreEntries(_, _, _, _)
\* new entry cells for the values of map, from entry i; items collects them
StoreEntries(h, map, i, items) ==
    IF i > Len(map) THEN [heap |-> h, items |-> items]
    ELSE StoreEntries(Append(h, EntryCell(map[i].val)), map, i + 1,
                      Append(items, [key |-> map[i].key, val |-> Len(h) + 1]))

\* a new map object with new entry objects, holding the value map
StoreMap(h, map) ==
    LET e == StoreEntries(h, map, 1, <<>>)
    IN  [heap |-> Append(e.heap, MapCell(e.items)), ref |-> Len(e.heap) + 1]

\* a new record object with new nested objects, holding the value v: what an
\* object literal, a spread copy or JSON.parse builds
StoreRecord(h, v) ==
    LET m == IF Has(v, "byModel") THEN StoreMap(h, v.byModel) ELSE [heap |-> h, ref |-> 0]
        d == IF Has(v, "byDay") THEN StoreMap(m.heap, v.byDay) ELSE [heap |-> m.heap, ref |-> 0]
        fields == [f \in DOMAIN v |->
                     CASE f = "byModel" -> m.ref
                       [] f = "byDay" -> d.ref
                       [] OTHER -> v[f]]
    IN  [heap |-> Append(d.heap, RecordCell(fields)), ref |-> Len(d.heap) + 1]

\* a new array of new element objects holding the values of seq
StoreArray(h, seq) ==
    [heap |-> Append(h \o [i \in 1..Len(seq) |-> EntryCell(seq[i])],
                     ArrayCell([i \in 1..Len(seq) |-> Len(h) + i])),
     ref |-> Len(h) + Len(seq) + 1]

\* the value of the map object m
LoadMap(h, m) ==
    [i \in 1..Len(h[m].items) |->
        [key |-> h[m].items[i].key, val |-> h[h[m].items[i].val].stats]]

\* the value of the record object r
Load(h, r) ==
    [f \in DOMAIN h[r].fields |->
        IF f \in MapFields THEN LoadMap(h, h[r].fields[f]) ELSE h[r].fields[f]]

\* the literals { cost: 0, inputTokens: 0, outputTokens: 0 } and { cost: 0, tokens: 0 }
ZeroModelStats == [cost |-> QZero, inputTokens |-> 0, outputTokens |-> 0]
ZeroDayStats == [cost |-> QZero, tokens |-> 0]

\* target.f += stats.f || 0, for every field f of target
AddStats(target, stats) ==
    [f \in DOMAIN target |->
        IF f = "cost" THEN QAdd(target[f], CostOr0(stats, f))
        ELSE target[f] + NumOr0(stats, f)]

\* the loop body with `merged.byModel[model] = stats` in place of the zero
\* literal: the input's own stats object is put into the merged map
HeapMergeEntryShared(h, m, e, zero) ==
    LET h1 == IF ~MapHas(h[m].items, e.key)
              THEN [h EXCEPT ![m].items = Append(@, [key |-> e.key, val |-> e.val])]
              ELSE h
        target == MapGet(h1[m].items, e.key)
    IN  [h1 EXCEPT ![target].stats = AddStats(@, h1[e.val].stats)]

\* the body of the loops over Object.entries(data.byModel) and
\* Object.entries(data.byDay): m is merged.byModel or merged.byDay, e is
\* [key, stats], zero the literal for a key met for the first time
HeapMergeEntry(h, m, e, zero) ==
    LET h1 == IF ~MapHas(h[m].items, e.key)
              THEN [Append(h, EntryCell(zero)) EXCEPT
                      ![m].items = Append(@, [key |-> e.key, val |-> Len(h) + 1])]
              ELSE h
        target == MapGet(h1[m].items, e.key)
    IN  [h1 EXCEPT ![target].stats = AddStats(@, h1[e.val].stats)]

RECURSIVE HeapMergeEntries(_, _, _, _, _)
\* for (const [key, stats] of Object.entries(...)), from entry i
HeapMergeEntries(h, m, entries, i, zero) ==
    IF i > Len(entries) THEN h
    ELSE HeapMergeEntries(HeapMergeEntry(h, m, entries[i], zero), m, entries, i + 1, zero)

\* the body of `for (const data of dataArray)`: m is the record object
\* `merged`, d the record object `data`
HeapMergeOne(h, m, d) ==
    LET src == h[d].fields
        h1 == [h EXCEPT ![m].fields =
                  [f \in DOMAIN @ |->
                      CASE f = "totalCost" -> QAdd(@[f], CostOr0(src, f))
                        [] f \in MapFields -> @[f]
                        [] OTHER -> @[f] + NumOr0(src, f)]]
        h2 == IF Has(src, "byModel")
              THEN HeapMergeEntries(h1, h1[m].fields.byModel,
                                    h1[src.byModel].items, 1, ZeroModelStats)
              ELSE h1
    IN  IF Has(src, "byDay")
        THEN HeapMergeEntries(h2, h2[m].fields.byDay,
                              h2[src.byDay].items, 1, ZeroDayStats)
        ELSE h2

RECURSIVE HeapMergeLoop(_, _, _, _)
\* for (const data of dataArray), from element i
HeapMergeLoop(h, m, refs, i) ==
    IF i > Len(refs) THEN h
    ELSE HeapMergeLoop(HeapMergeOne(h, m, refs[i]), m, refs, i + 1)

\* mergeUsageData(dataArray) on the heap: [heap, ref] of the result
HeapMergeUsageData(h, refs) ==
    IF Len(refs) = 0
    THEN StoreRecord(h, ZeroRecord)
    ELSE IF Len(refs) = 1
         THEN [heap |-> h, ref |-> refs[1]]
         ELSE LET m == StoreRecord(h, ZeroRecord)
              IN  [heap |-> HeapMergeLoop(m.heap, m.ref, refs, 1),
                   ref |-> m.ref]

\* filterByPeriod(data, period) on the heap: data itself for 'all'; otherwise
\* the literal `filtered` with its {} maps, the { ...stats } copies of the days
\* in range and the literals built for the models
HeapFilterByPeriod(h, d, p, today) ==
    IF p = "all"
    THEN [heap |-> h, ref |-> d]
    ELSE StoreRecord(h, FilterRebuild(Load(h, d), p, today))

\* calculateSummary(data) on the heap: the literal it returns
HeapCalculateSummary(h, d) ==
    [heap |-> Append(h, EntryCell(CalculateSummary(Load(h, d)))), ref |-> Len(h) + 1]

\* getModelBreakdown(data) on the heap: the array that map() builds, of the
\* literals of its callback, sorted in place
HeapGetModelBreakdown(h, d) == StoreArray(h, GetModelBreakdown(Load(h, d)))

\* getDailyUsage(data) on the heap: the array that map() builds, of the
\* literals of its callback, sorted in place
HeapGetDailyUsage(h, d) == StoreArray(h, GetDailyUsage(Load(h, d), <<>>))

----------------------------------------------------------------------------
(* parser.js: transformCcusageFormat *)

\* the body of the loop over day.modelBreakdowns
TransformModel(byModel, model) ==
    LET init == IF ~MapHas(byModel, model.modelName)
                THEN MapSet(byModel, model.modelName,
                            [cost |-> QZero, inputTokens |-> 0, outputTokens |-> 0])
                ELSE byModel
        old == MapGet(init, model.modelName)
    IN  MapSet(init, model.modelName,
               [cost |-> QAdd(old.cost, CostOr0(model, "cost")),
                inputTokens |-> old.inputTokens + NumOr0(model, "inputTokens"),
                outputTokens |-> old.outputTokens + NumOr0(model, "outputTokens")])

RECURSIVE TransformModels(_, _, _)
\* for (const model of day.modelBreakdowns), from element i
TransformModels(byModel, modelBreakdowns, i) ==
    IF i > Len(modelBreakdowns) THEN byModel
    ELSE TransformModels(TransformModel(byModel, modelBreakdowns[i]), modelBreakdowns, i + 1)

\* the body of the loop over daily; acc is [byDay, byModel]
TransformDay(acc, day) ==
    [byDay |-> MapSet(acc.byDay, day.date,
                      [cost |-> CostOr0(day, "totalCost"),
                       tokens |-> NumOr0(day, "totalTokens")]),
     byModel |-> IF Has(day, "modelBreakdowns")
                 THEN TransformModels(acc.byModel, day.modelBreakdowns, 1)
                 ELSE acc.byModel]

RECURSIVE TransformDays(_, _, _)
\* for (const day of daily), from element i
TransformDays(acc, daily, i) ==
    IF i > Len(daily) THEN acc
    ELSE TransformDays(TransformDay(acc, daily[i]), daily, i + 1)

\* transformCcusageFormat(rawData)
TransformCcusageFormat(rawData) ==
    IF Has(rawData, "totalCost") /\ ~Has(rawData, "daily")
    THEN rawData
    ELSE LET daily == IF Has(rawData, "daily") THEN rawData.daily ELSE <<>>
             totals == IF Has(rawData, "totals") THEN rawData.totals ELSE EmptyObj
             maps == TransformDays([byDay |-> EmptyObj, byModel |-> EmptyObj], daily, 1)
         IN  [totalCost |-> CostOr0(totals, "totalCost"),
              totalInputTokens |-> NumOr0(totals, "inputTokens"),
              totalOutputTokens |-> NumOr0(totals, "outputTokens"),
              totalCacheCreationInputTokens |-> NumOr0(totals, "cacheCreationTokens"),
              totalCacheReadInputTokens |-> NumOr0(totals, "cacheReadTokens"),
              byModel |-> maps.byModel,
              byDay |-> maps.byDay]

----------------------------------------------------------------------------
(* Promise.all over the reads of the input paths *)

\* the array a Promise.all would resolve to if it kept the values in the order
\* the reads completed
PromiseAllCompletionOrder(slotValues, completionOrder) ==
    [j \in 1..Len(completionOrder) |-> slotValues[completionOrder[j]][1]]

\* the array Promise.all resolves to: the value of each promise at the
\* position of its input path
PromiseAll(slotValues, completionOrder) ==
    [i \in 1..Len(slotValues) |-> slotValues[i][1]]

----------------------------------------------------------------------------
(* Input records *)

\* the UTC day of the reference date `new Date()`
Today == 40

\* { k1: v1 } and { k1: v1, k2: v2 }
Map1(k1, v1) == <<[key |-> k1, val |-> v1]>>
Map2(k1, v1, k2, v2) == <<[key |-> k1, val |-> v1], [key |-> k2, val |-> v2]>>

\* a fully populated record
RecFull(c, t) ==
    [totalCost |-> QInt(c),
     totalInputTokens |-> t,
     totalOutputTokens |-> t + 1,
     totalCacheCreationInputTokens |-> 0,
     totalCacheReadInputTokens |-> 2 * t,
     byModel |-> Map2("m1", [cost |-> QInt(c), inputTokens |-> t, outputTokens |-> t + 1],
                      "m2", [cost |-> QInt(1), inputTokens |-> 0, outputTokens |-> 1]),
     byDay |-> Map2(Today, [cost |-> QInt(c), tokens |-> t],
                    Today - 1, [cost |-> QInt(1), tokens |-> 2])]

\* a record without totalCost, output and cache totals and byDay, whose model
\* entry has a cost only
RecPartial(t) ==
    [totalInputTokens |-> t,
     byModel |-> Map1("m2", [cost |-> Q(1, 2)])]

\* a record without token totals and byModel, with fractional costs and a day
\* entry without cost
RecDays(c) ==
    [totalCost |-> Q(2 * c + 1, 2),
     byDay |-> Map2(Today - 1, [tokens |-> c],
                    Today, [cost |-> Q(2 * c + 1, 2), tokens |-> 1])]

MergeRecords ==
    {EmptyObj}
    \cup {RecFull(c, t) : c \in 1..MaxCost, t \in 1..MaxTokens}
    \cup {RecPartial(t) : t \in 1..MaxTokens}
    \cup {RecDays(c) : c \in 0..MaxCost}

\* the arrays of 0 to 3 records
MergeArrays ==
    {<<>>}
    \cup {<<a>> : a \in MergeRecords}
    \cup {<<a, b>> : a \in MergeRecords, b \in MergeRecords}
    \cup {<<a, b, c>> : a \in MergeRecords, b \in MergeRecords, c \in MergeRecords}

\* an object with the field `name` when opt is <<value>>, without it when <<>>
Field(name, opt) == IF opt = <<>> THEN EmptyObj ELSE name :> opt[1]

\* the choices for totalCost: absent, or 0..MaxCost
CostChoices == {<<>>} \cup {<<QInt(c)>> : c \in 0..MaxCost}

\* the choices for the four token totals: all absent, or all present
TokenChoices ==
    {EmptyObj}
    \cup {[totalInputTokens |-> t,
           totalOutputTokens |-> t + 1,
           totalCacheCreationInputTokens |-> 2,
           totalCacheReadInputTokens |-> 2 * t] : t \in 1..MaxTokens}

\* the choices for byModel: absent, empty, or two models one of which has a
\* cost only
ModelChoices ==
    {<<>>, <<EmptyObj>>}
    \cup {<<Map2("m1", [cost |-> QInt(c), inputTokens |-> c, outputTokens |-> 2 * c + 1],
                 "m2", [cost |-> QInt(1)])>> : c \in 1..MaxCost}

\* the days at and around the ends of the day, week and month windows
BoundaryDays == {Today - 30, Today - 29, Today - 7, Today - 6, Today, Today + 1}

\* the choices for a byDay entry: cost and tokens, or tokens only
DayStats == {[cost |-> QInt(c), tokens |-> c + 1] : c \in 1..MaxCost} \cup {[tokens |-> 1]}

\* the choices for byDay: absent, empty, one day, or two distinct days
DayChoices ==
    {<<>>, <<EmptyObj>>}
    \cup {<<Map1(d, st)>> : d \in BoundaryDays, st \in DayStats}
    \cup {<<Map2(dd[1], st, dd[2], [cost |-> QInt(1), tokens |-> 2])>> :
            dd \in {x \in BoundaryDays \X BoundaryDays : x[1] # x[2]}, st \in DayStats}

\* the input records of processData; totalCost need not be the sum of byDay
ProcessRecords ==
    {Field("totalCost", c) @@ t @@ Field("byModel", m) @@ Field("byDay", d) :
        c \in CostChoices, t \in TokenChoices, m \in ModelChoices, d \in DayChoices}

\* records that mergeUsageData built: every pair of input records, and
\* triples, among them those whose merged totalCost is the sum of the merged
\* model costs
MergedRecords ==
    {MergeUsageData(<<a, b>>).val : a \in MergeRecords, b \in MergeRecords}
    \cup UNION {{MergeUsageData(<<a, RecFull(c, t), RecDays(k)>>).val :
                    a \in {RecPartial(t), RecDays(0)}, k \in 0..MaxCost} :
                 c \in 1..MaxCost, t \in 1..MaxTokens}

\* the records processData is called on: a source's record or a merged one
ProcessInputs == ProcessRecords \cup MergedRecords

\* a byDay of three days, given in any order
ThreeDays ==
    {<<[key |-> dd[1], val |-> [cost |-> QInt(1), tokens |-> 1]],
       [key |-> dd[2], val |-> [tokens |-> 2]],
       [key |-> dd[3], val |-> [cost |-> Q(1, 2)]]>> :
        dd \in {x \in BoundaryDays \X BoundaryDays \X BoundaryDays :
                    x[1] # x[2] /\ x[1] # x[3] /\ x[2] # x[3]}}

\* the records getDailyUsage is called on: without byDay, or with 0 to 3 days
DailyRecords ==
    {Field("byDay", d) : d \in DayChoices \cup {<<m>> : m \in ThreeDays}}

\* the limits given to getDailyUsage: none (null), or 0..MaxDays
Limits == {<<>>} \cup {<<k>> : k \in 0..MaxDays}

\* nothing, or one of the values of S
Opt(S) == {<<>>} \cup {<<v>> : v \in S}

\* the values given to validateData that are not objects
NonObjects ==
    {JsNull, JsUndefined, JsNumber(0), JsNumber(1), JsNaN, JsString(""), JsString("x"),
     JsBoolean(FALSE), JsBoolean(TRUE), JsFunction}

\* the values of the fields of an object given to validateData
DailyValues == {JsArray, JsObject(EmptyObj), JsString("x"), JsNumber(0), JsNull}
TotalsValues ==
    {JsObject(EmptyObj), JsArray, JsString("x"), JsString(""), JsNumber(1), JsNull}
TotalCostValues ==
    {JsNumber(1), JsNumber(0), JsNumber(-1), JsNaN, JsString("x"), JsNull}
ByModelValues ==
    {JsObject(EmptyObj), JsArray, JsString("x"), JsString(""), JsNumber(0), JsNull}
ByDayValues == {JsObject(EmptyObj), JsString("x"), JsBoolean(FALSE)}

\* the values validateData is called on: non-objects, an array, and objects
\* with any of the five fields absent or of any kind
ValidateInputs ==
    NonObjects \cup {JsArray}
    \cup {JsObject(Field("daily", a) @@ Field("totals", b) @@ Field("totalCost", c)
                    @@ Field("byModel", d) @@ Field("byDay", e)) :
            a \in Opt(DailyValues), b \in Opt(TotalsValues), c \in Opt(TotalCostValues),
            d \in Opt(ByModelValues), e \in Opt(ByDayValues)}

\* the tags given to getPeriodRange and getPeriodLabelKey: the period tags,
\* and more unrecognized ones
Tags == {"day", "week", "month", "all", "year", "", "Day", "weekly", "constructor", "toString"}

\* the date keys given to isDateInRange
ProbeDays == BoundaryDays \cup {Today - 10000, Today + 10000}

\* the arrays of 0 to 2 records whose objects are followed on the heap
HeapArrays ==
    LET recs == {RecFull(1, 1), RecPartial(1), RecDays(1)}
    IN  {<<>>} \cup {<<a>> : a \in recs} \cup {<<a, b>> : a \in recs, b \in recs}

\* the period tags of the filters followed on the heap
HeapPeriods == {"all", "day", "week"}

\* the period tags: the four known ones and an unrecognized one
Periods == {"day", "week", "month", "all", "year"}

\* the times of day of the reference date
TimesOfDay == {0, EndOfDayMs}

\* a file in ccusage format: two days with model breakdowns, and totals
CcusageFile(c, t) ==
    [daily |->
        <<[date |-> Today - 1, totalCost |-> QInt(c), totalTokens |-> t,
           modelBreakdowns |->
              <<[modelName |-> "m3", cost |-> QInt(c), inputTokens |-> t, outputTokens |-> 1]>>],
          [date |-> Today, totalCost |-> QInt(1), totalTokens |-> 1,
           modelBreakdowns |->
              <<[modelName |-> "m1", cost |-> Q(1, 2), inputTokens |-> 1],
                [modelName |-> "m3", cost |-> Q(1, 2), outputTokens |-> t]>>]>>,
     totals |-> [totalCost |-> QInt(c + 1), inputTokens |-> t + 1, outputTokens |-> t + 1,
                 cacheCreationTokens |-> 1, cacheReadTokens |-> 2]]

\* the contents of the input files
FileContents ==
    {RecFull(MaxCost, MaxTokens), RecPartial(MaxTokens), RecDays(MaxCost),
     CcusageFile(MaxCost, MaxTokens)}

\* the contents of two or three input paths
FileLists ==
    {<<a, b>> : a \in FileContents, b \in FileContents}
    \cup {<<a, b, c>> : a \in FileContents, b \in FileContents, c \in FileContents}

\* the entries of a daily array: a day of one model, or a day with its date only
DailyEntries ==
    {[date |-> d, totalCost |-> QInt(c), totalTokens |-> c + 1,
      modelBreakdowns |-> <<[modelName |-> m, cost |-> QInt(c), inputTokens |-> c,
                             outputTokens |-> 1]>>] :
        d \in {Today - 1, Today}, c \in 1..MaxCost, m \in {"m1", "m2"}}
    \cup {[date |-> d] : d \in {Today - 1, Today}}

\* the daily arrays of 0 to 2 entries; two entries may carry the same date
DailyArrays ==
    {<<>>} \cup {<<a>> : a \in DailyEntries}
    \cup {<<a, b>> : a \in DailyEntries, b \in DailyEntries}

\* the contents transformCcusageFormat is called on: the ccusage format with
\* or without totals, and records of the internal format
TransformInputs ==
    {[daily |-> a] : a \in DailyArrays}
    \cup {[daily |-> a, totals |-> CcusageFile(1, 1).totals] : a \in DailyArrays}
    \cup {CcusageFile(c, t) : c \in 1..MaxCost, t \in 1..MaxTokens}
    \cup MergeRecords

----------------------------------------------------------------------------
(* Merging: the calls of mergeUsageData *)

InitMergeVars ==
    /\ merged = <<>>
    /\ nested = <<>>
    /\ reversed = <<>>

InitMergeIdle ==
    /\ dataArray = <<>>
    /\ InitMergeVars

InitProcessIdle ==
    /\ data = EmptyObj
    /\ period = "all"
    /\ now = [day |-> Today, ms |-> 0]
    /\ filtered = <<>>
    /\ summary = <<>>
    /\ models = <<>>
    /\ dailyUsage = <<>>
    /\ topModel = <<>>
    /\ labelKey = <<>>

InitReadIdle ==
    /\ files = <<>>
    /\ mode = "parseMultiple"
    /\ slots = <<>>
    /\ completed = <<>>
    /\ outcome = <<>>

InitDailyIdle ==
    /\ limit = <<>>
    /\ recent = <<>>

InitValidateIdle ==
    /\ input = [kind |-> "undefined"]
    /\ validation = <<>>

InitTransformIdle ==
    /\ raw = EmptyObj
    /\ transformed = <<>>

InitPeriodIdle ==
    /\ tag = "all"
    /\ tagRange = <<>>
    /\ probe = Today
    /\ inRange = <<>>
    /\ tagLabel = <<>>

InitHeapIdle ==
    /\ heap = <<>>
    /\ roots = <<>>
    /\ calls = <<>>

InitUpdaterIdle ==
    /\ readme = <<>>
    /\ newText = <<>>
    /\ inserted = <<>>
    /\ inits = <<>>

InitDashIdle ==
    /\ argv = <<>>
    /\ configFile = <<>>
    /\ inputFile = <<>>
    /\ svgWritable = TRUE
    /\ run = <<>>
    /\ svgFiles = {}
    /\ trace = <<>>

InitGenIdle ==
    /\ rawInput = EmptyObj
    /\ genConfig = EmptyObj
    /\ gen = <<>>

InitToolIdle ==
    /\ InitUpdaterIdle
    /\ InitDashIdle
    /\ InitGenIdle

InitCallIdle ==
    /\ InitDailyIdle
    /\ InitValidateIdle
    /\ InitTransformIdle
    /\ InitPeriodIdle
    /\ InitHeapIdle
    /\ InitToolIdle

InitMerge ==
    /\ dataArray \in MergeArrays
    /\ InitMergeVars
    /\ InitProcessIdle
    /\ InitReadIdle
    /\ InitCallIdle

\* merged = mergeUsageData(dataArray)
Merge ==
    /\ merged = <<>>
    /\ merged' = <<MergeUsageData(dataArray)>>
    /\ UNCHANGED <<dataArray, nested, reversed, processVars, readVars, callVars>>

\* mergeUsageData([mergeUsageData([A, B]), C])
MergeNested ==
    /\ Len(dataArray) = 3
    /\ nested = <<>>
    /\ nested' = <<MergeUsageData(
                     <<MergeUsageData(<<dataArray[1], dataArray[2]>>).val,
                       dataArray[3]>>)>>
    /\ UNCHANGED <<dataArray, merged, reversed, processVars, readVars, callVars>>

\* mergeUsageData([C, B, A])
MergeReversed ==
    /\ Len(dataArray) = 3
    /\ reversed = <<>>
    /\ reversed' = <<MergeUsageData(<<dataArray[3], dataArray[2], dataArray[1]>>)>>
    /\ UNCHANGED <<dataArray, merged, nested, processVars, readVars, callVars>>

NextMerge == Merge \/ MergeNested \/ MergeReversed

SpecMerge == InitMerge /\ [][NextMerge]_vars

----------------------------------------------------------------------------
(* Properties of mergeUsageData *)

RECURSIVE SumSeq(_)
SumSeq(s) == IF Len(s) = 0 THEN 0 ELSE Head(s) + SumSeq(Tail(s))

RECURSIVE QSumSeq(_)
QSumSeq(s) == IF Len(s) = 0 THEN QZero ELSE QAdd(Head(s), QSumSeq(Tail(s)))

\* the byModel / byDay mapping of record d, empty when the field is absent
MapOf(d, f) == IF Has(d, f) THEN d[f] ELSE <<>>

\* the union of the key sets of field f over the records of arr
AllKeys(arr, f) == UNION {Keys(MapOf(arr[i], f)) : i \in 1..Len(arr)}

\* the sum of the token field g of key k of mapping f over the records
\* containing the key
SumNumAt(arr, f, k, g) ==
    SumSeq([i \in 1..Len(arr) |->
              IF MapHas(MapOf(arr[i], f), k)
              THEN NumOr0(MapGet(MapOf(arr[i], f), k), g) ELSE 0])

SumCostAt(arr, f, k) ==
    QSumSeq([i \in 1..Len(arr) |->
               IF MapHas(MapOf(arr[i], f), k)
               THEN CostOr0(MapGet(MapOf(arr[i], f), k), "cost") ELSE QZero])

\* a mapping as a function of its keys, without the insertion order
AsFunction(map) == [k \in Keys(map) |-> MapGet(map, k)]

\* C1: merging two or more records sums the five scalar totals (absent = 0),
\* gives byModel and byDay the union of the inputs' keys, and sums cost,
\* inputTokens, outputTokens (byModel) and cost, tokens (byDay) per key over
\* the inputs containing the key; a date in several inputs is added up.
C1_MergeSums ==
    (merged # <<>> /\ Len(dataArray) >= 2) =>
        LET m == merged[1].val
            n == Len(dataArray)
        IN  /\ merged[1].ref = 0
            /\ DOMAIN m = DOMAIN ZeroRecord
            /\ m.totalCost = QSumSeq([i \in 1..n |-> CostOr0(dataArray[i], "totalCost")])
            /\ \A j \in 1..Len(TokenFields) :
                 m[TokenFields[j]] =
                    SumSeq([i \in 1..n |-> NumOr0(dataArray[i], TokenFields[j])])
            /\ Keys(m.byModel) = AllKeys(dataArray, "byModel")
            /\ Len(m.byModel) = Cardinality(Keys(m.byModel))
            /\ \A k \in Keys(m.byModel) :
                 MapGet(m.byModel, k) =
                    [cost |-> SumCostAt(dataArray, "byModel", k),
                     inputTokens |-> SumNumAt(dataArray, "byModel", k, "inputTokens"),
                     outputTokens |-> SumNumAt(dataArray, "byModel", k, "outputTokens")]
            /\ Keys(m.byDay) = AllKeys(dataArray, "byDay")
            /\ Len(m.byDay) = Cardinality(Keys(m.byDay))
            /\ \A k \in Keys(m.byDay) :
                 MapGet(m.byDay, k) =
                    [cost |-> SumCostAt(dataArray, "byDay", k),
                     tokens |-> SumNumAt(dataArray, "byDay", k, "tokens")]

\* a merge of three records, two of which share a date with non-zero costs and
\* one of which lacks totalCost
C1_Witness ==
    /\ merged # <<>>
    /\ Len(dataArray) = 3
    /\ \E i, j \in 1..3 :
         /\ i # j
         /\ MapHas(MapOf(dataArray[i], "byDay"), Today)
         /\ MapHas(MapOf(dataArray[j], "byDay"), Today)
         /\ CostOr0(MapGet(dataArray[i].byDay, Today), "cost").n > 0
         /\ CostOr0(MapGet(dataArray[j].byDay, Today), "cost").n > 0
    /\ \E i \in 1..3 : ~Has(dataArray[i], "totalCost") /\ Has(dataArray[i], "byModel")

\* C2: merging one record returns that very record (the same object, nothing
\* copied or filled in); merging no record returns the all-zero record with
\* empty byModel and byDay.
C2_MergeIdentity ==
    merged # <<>> =>
        /\ Len(dataArray) = 1 => merged[1] = [ref |-> 1, val |-> dataArray[1]]
        /\ Len(dataArray) = 0 =>
             /\ merged[1].val.totalCost = QZero
             /\ \A j \in 1..Len(TokenFields) : merged[1].val[TokenFields[j]] = 0
             /\ merged[1].val.byModel = EmptyObj
             /\ merged[1].val.byDay = EmptyObj

\* the merge of a single record that lacks some of the fields
C2_Witness ==
    /\ merged # <<>>
    /\ Len(dataArray) = 1
    /\ DOMAIN dataArray[1] # DOMAIN ZeroRecord

\* the totals and the per-key values of two records are equal
SameData(a, b) ==
    /\ a.totalCost = b.totalCost
    /\ \A j \in 1..Len(TokenFields) : a[TokenFields[j]] = b[TokenFields[j]]
    /\ AsFunction(a.byModel) = AsFunction(b.byModel)
    /\ AsFunction(a.byDay) = AsFunction(b.byDay)

----------------------------------------------------------------------------
(* Processing: processData, and the head of generateMarkdown / generateSVG *)

InitProcess ==
    /\ data \in ProcessInputs
    /\ period = "all"
    /\ now = [day |-> Today, ms |-> 0]
    /\ filtered = <<>>
    /\ summary = <<>>
    /\ models = <<>>
    /\ dailyUsage = <<>>
    /\ topModel = <<>>
    /\ labelKey = <<>>
    /\ InitMergeIdle
    /\ InitReadIdle
    /\ InitCallIdle

\* processData(data, p), called at time of day ms of the reference day
ProcessData(p, ms) ==
    /\ filtered = <<>>
    /\ period' = p
    /\ now' = [day |-> Today, ms |-> ms]
    /\ filtered' = <<FilterByPeriod(data, p, now')>>
    /\ summary' = <<CalculateSummary(filtered'[1].val)>>
    /\ models' = <<GetModelBreakdown(filtered'[1].val)>>
    /\ dailyUsage' = <<GetDailyUsage(filtered'[1].val, <<>>)>>
    /\ UNCHANGED <<data, topModel, labelKey, mergeVars, readVars, callVars>>

\* generateMarkdown / generateSVG on the processed data: the top model and the
\* key of the period label
GenerateHead ==
    /\ models # <<>>
    /\ topModel = <<>>
    /\ topModel' = <<GetTopModel(models[1])>>
    /\ labelKey' = <<GetPeriodLabelKey(period)>>
    /\ UNCHANGED <<data, period, now, filtered, summary, models, dailyUsage,
                   mergeVars, readVars, callVars>>

NextProcess ==
    \/ \E p \in Periods, ms \in TimesOfDay : ProcessData(p, ms)
    \/ GenerateHead

SpecProcess == InitProcess /\ [][NextProcess]_vars

----------------------------------------------------------------------------
(* Properties of filterByPeriod and calculateSummary *)

Windowed == filtered # <<>> /\ period \in {"day", "week", "month"}

\* the number of days of the window of a period
WindowDays(p) == CASE p = "day" -> 1 [] p = "week" -> 7 [] p = "month" -> 30

\* C4: for day, week and month the filtered totalCost is exactly the sum of
\* cost over the byDay entries of the output, and every byDay entry of the
\* output has the cost and tokens of the input entry of the same date.
C4_FilterConservation ==
    Windowed =>
        LET out == filtered[1].val
        IN  /\ out.totalCost =
                 QSumSeq([i \in 1..Len(out.byDay) |-> CostOr0(out.byDay[i].val, "cost")])
            /\ \A k \in Keys(out.byDay) :
                 /\ MapHas(MapOf(data, "byDay"), k)
                 /\ MapGet(out.byDay, k) = MapGet(data.byDay, k)

\* a week filter that keeps one of two days, whose costs differ from totalCost
C4_Witness ==
    /\ Windowed /\ period = "week"
    /\ Len(filtered[1].val.byDay) = 1
    /\ Len(MapOf(data, "byDay")) = 2
    /\ filtered[1].val.totalCost.n > 0
    /\ filtered[1].val.totalCost # CostOr0(data, "totalCost")

\* C5: with reference day D, the filter keeps a byDay entry exactly when its
\* date d satisfies D-(n-1) <= d <= D, n being 1, 7, 30 for day, week, month.
C5_FilterWindow ==
    Windowed =>
        Keys(filtered[1].val.byDay) =
            {d \in Keys(MapOf(data, "byDay")) :
                now.day - (WindowDays(period) - 1) <= d /\ d <= now.day}

\* a month filter late in the day of a record with the first day of the
\* window (kept) and the day before it (dropped)
C5_Witness ==
    /\ Windowed /\ period = "month" /\ now.ms = EndOfDayMs
    /\ Keys(MapOf(data, "byDay")) = {Today - 30, Today - 29}
    /\ Keys(filtered[1].val.byDay) = {Today - 29}

\* the ratio filteredTotalCost / originalTotalCost, 0 when the original
\* totalCost is 0
ClaimedRatio(d, out) ==
    IF CostOr0(d, "totalCost") = QZero
    THEN QZero
    ELSE QDiv(out.totalCost, d.totalCost)

\* C6: for day, week and month and every input record, each of the four token
\* totals of the output is round(original total x r), r being
\* filteredTotalCost / originalTotalCost, and 0 when the original totalCost
\* is 0.
C6_TokenScaling ==
    Windowed =>
        LET out == filtered[1].val
        IN  \A j \in 1..Len(TokenFields) :
               out[TokenFields[j]] =
                  MathRound(QMul(QInt(NumOr0(data, TokenFields[j])),
                                 ClaimedRatio(data, out)))

C8_FilterAllIdentity ==
    (filtered # <<>> /\ period = "all") => filtered[1] = [ref |-> 1, val |-> data]

\* an `all` filter of a record whose totalCost is not the sum of its days and
\* which lacks byModel
C8_Witness ==
    /\ filtered # <<>> /\ period = "all"
    /\ Has(data, "byDay") /\ ~Has(data, "byModel")
    /\ CostOr0(data, "totalCost") #
         QSumSeq([i \in 1..Len(data.byDay) |-> CostOr0(data.byDay[i].val, "cost")])

\* C10: calculateSummary returns totalTokens = the sum of the four token totals
\* (absent = 0), periodDays = the number of byDay keys, or 1 when byDay is
\* empty or absent, dailyAverage.tokens = round(totalTokens / periodDays) and
\* dailyAverage.cost = totalCost / periodDays.
C10_Summary ==
    summary # <<>> =>
        LET in == filtered[1].val
            sm == summary[1]
            n == Cardinality(Keys(MapOf(in, "byDay")))
        IN  /\ sm.totalTokens =
                 SumSeq([j \in 1..Len(TokenFields) |-> NumOr0(in, TokenFields[j])])
            /\ sm.periodDays = (IF n = 0 THEN 1 ELSE n)
            /\ sm.periodDays >= 1
            /\ sm.dailyAverage.tokens = MathRound(Q(sm.totalTokens, sm.periodDays))
            /\ sm.dailyAverage.cost = QDiv(CostOr0(in, "totalCost"), QInt(sm.periodDays))
            /\ sm.totalCost = CostOr0(in, "totalCost")

\* a summary over two days whose token average rounds up from a half
C10_Witness ==
    /\ summary # <<>>
    /\ summary[1].periodDays = 2
    /\ summary[1].totalTokens % 2 = 1
    /\ summary[1].dailyAverage.tokens * 2 = summary[1].totalTokens + 1
    /\ summary[1].dailyAverage.cost.d = 2

----------------------------------------------------------------------------
(* The calls of getDailyUsage with a limit *)

InitDaily ==
    /\ data \in DailyRecords
    /\ period = "all"
    /\ now = [day |-> Today, ms |-> 0]
    /\ filtered = <<>>
    /\ summary = <<>>
    /\ models = <<>>
    /\ dailyUsage = <<>>
    /\ topModel = <<>>
    /\ labelKey = <<>>
    /\ InitDailyIdle
    /\ InitValidateIdle
    /\ InitTransformIdle
    /\ InitPeriodIdle
    /\ InitMergeIdle
    /\ InitReadIdle
    /\ InitHeapIdle
    /\ InitToolIdle

\* recent = getDailyUsage(data, k)
DailyUsage(k) ==
    /\ recent = <<>>
    /\ limit' = k
    /\ recent' = <<GetDailyUsage(data, k)>>
    /\ UNCHANGED <<processVars, mergeVars, readVars, validateVars, transformVars, periodVars, heapVars, toolVars>>

NextDaily == \E k \in Limits : DailyUsage(k)

SpecDaily == InitDaily /\ [][NextDaily]_vars

----------------------------------------------------------------------------
(* The calls of validateData *)

InitValidate ==
    /\ input \in ValidateInputs
    /\ validation = <<>>
    /\ InitDailyIdle
    /\ InitTransformIdle
    /\ InitPeriodIdle
    /\ InitProcessIdle
    /\ InitMergeIdle
    /\ InitReadIdle
    /\ InitHeapIdle
    /\ InitToolIdle

\* validation = validateData(input)
Validate ==
    /\ validation = <<>>
    /\ validation' = <<ValidateData(input)>>
    /\ UNCHANGED <<input, processVars, mergeVars, readVars, dailyVars, transformVars, periodVars, heapVars, toolVars>>

NextValidate == Validate

SpecValidate == InitValidate /\ [][NextValidate]_vars

----------------------------------------------------------------------------
(* The calls of transformCcusageFormat *)

InitTransform ==
    /\ raw \in TransformInputs
    /\ transformed = <<>>
    /\ InitDailyIdle
    /\ InitValidateIdle
    /\ InitPeriodIdle
    /\ InitProcessIdle
    /\ InitMergeIdle
    /\ InitReadIdle
    /\ InitHeapIdle
    /\ InitToolIdle

\* transformed = transformCcusageFormat(rawData)
Transform ==
    /\ transformed = <<>>
    /\ transformed' = <<TransformCcusageFormat(raw)>>
    /\ UNCHANGED <<raw, processVars, mergeVars, readVars, dailyVars, validateVars, periodVars, heapVars, toolVars>>

NextTransform == Transform

SpecTransform == InitTransform /\ [][NextTransform]_vars

----------------------------------------------------------------------------
(* The calls of getPeriodRange, isDateInRange and getPeriodLabelKey *)

InitPeriod ==
    /\ InitPeriodIdle
    /\ InitDailyIdle
    /\ InitValidateIdle
    /\ InitTransformIdle
    /\ InitProcessIdle
    /\ InitMergeIdle
    /\ InitReadIdle
    /\ InitHeapIdle
    /\ InitToolIdle

\* range = getPeriodRange(p), called at time of day ms of the reference day;
\* inRange = isDateInRange(d, range); tagLabel = getPeriodLabelKey(p)
PeriodCalls(p, ms, d) ==
    /\ tagRange = <<>>
    /\ tag' = p
    /\ now' = [day |-> Today, ms |-> ms]
    /\ tagRange' = <<GetPeriodRange(p, now')>>
    /\ probe' = d
    /\ inRange' = <<IsDateInRange(d, tagRange'[1])>>
    /\ tagLabel' = <<GetPeriodLabelKey(p)>>
    /\ UNCHANGED <<data, period, filtered, summary, models, dailyUsage, topModel, labelKey,
                   mergeVars, readVars, dailyVars, validateVars, transformVars, heapVars, toolVars>>

NextPeriod == \E p \in Tags, ms \in TimesOfDay, d \in ProbeDays : PeriodCalls(p, ms, d)

SpecPeriod == InitPeriod /\ [][NextPeriod]_vars

\* the record has byModel and byDay, each a mapping of distinct keys, byModel
\* with the models of d and byDay with days of d only
HasBothMappings(v, d) ==
    /\ Has(v, "byModel") /\ Has(v, "byDay")
    /\ Cardinality(Keys(v.byModel)) = Len(v.byModel)
    /\ Cardinality(Keys(v.byDay)) = Len(v.byDay)
    /\ Keys(v.byModel) = Keys(MapOf(d, "byModel"))
    /\ Keys(v.byDay) \subseteq Keys(MapOf(d, "byDay"))

\* C19 as stated: the record returned by filterByPeriod always has byModel and
\* byDay present as mappings, empty when there is nothing to put in them, for
\* every period tag and every input record.
C19_FilterMappings_Original ==
    filtered # <<>> => HasBothMappings(filtered[1].val, data)

\* C19: for every period tag other than all and every input record (including
\* inputs that lack byModel or byDay), the record returned by filterByPeriod
\* has byModel and byDay present as mappings, empty when there is nothing to
\* put in them; for all the input is returned as it is.
C19_FilterMappings ==
    filtered # <<>> =>
        IF period = "all"
        THEN filtered[1].val = data
        ELSE HasBothMappings(filtered[1].val, data)

\* a filter by an unrecognized tag of a record without byModel and byDay
C19_Witness ==
    /\ filtered # <<>>
    /\ period = "year"
    /\ ~Has(data, "byModel") /\ ~Has(data, "byDay")
    /\ filtered[1].val.byModel = EmptyObj
    /\ filtered[1].val.byDay = EmptyObj

----------------------------------------------------------------------------
(* Sequences of calls on the objects of the heap *)

RECURSIVE StoreAll(_, _, _, _)
\* the records of arr as objects, from element i: [heap, refs]
StoreAll(h, arr, i, refs) ==
    IF i > Len(arr) THEN [heap |-> h, refs |-> refs]
    ELSE LET st == StoreRecord(h, arr[i])
         IN  StoreAll(st.heap, arr, i + 1, Append(refs, st.ref))

\* the records of dataArray are objects of the heap
InitHeap ==
    /\ dataArray \in HeapArrays
    /\ InitMergeVars
    /\ heap = StoreAll(<<>>, dataArray, 1, <<>>).heap
    /\ roots = StoreAll(<<>>, dataArray, 1, <<>>).refs
    /\ calls = <<>>
    /\ InitProcessIdle
    /\ InitReadIdle
    /\ InitDailyIdle
    /\ InitValidateIdle
    /\ InitTransformIdle
    /\ InitPeriodIdle
    /\ InitToolIdle

\* the call of op on args returned res = [heap, ref]; a record returned joins
\* the records that later calls may be given
Called(op, args, res, isRecord) ==
    /\ Len(calls) < MaxCalls
    /\ heap' = res.heap
    /\ roots' = IF isRecord THEN Append(roots, res.ref) ELSE roots
    /\ calls' = Append(calls, [op |-> op, args |-> args, result |-> res.ref, pre |-> heap])
    /\ UNCHANGED <<mergeVars, processVars, readVars, dailyVars, validateVars,
                   transformVars, periodVars, toolVars>>

\* mergeUsageData(dataArray)
HeapMerge ==
    LET refs == SubSeq(roots, 1, Len(dataArray))
    IN  Called("mergeUsageData", refs, HeapMergeUsageData(heap, refs), TRUE)

\* filterByPeriod(r, p), for a record r
HeapFilter(r, p) ==
    Called("filterByPeriod", <<r>>,
           HeapFilterByPeriod(heap, r, p, [day |-> Today, ms |-> 0]), TRUE)

\* calculateSummary(r), for a record r
HeapSummary(r) ==
    Called("calculateSummary", <<r>>, HeapCalculateSummary(heap, r), FALSE)

\* getModelBreakdown(r), for a record r
HeapBreakdown(r) ==
    Called("getModelBreakdown", <<r>>, HeapGetModelBreakdown(heap, r), FALSE)

\* getDailyUsage(r), for a record r
HeapDaily(r) ==
    Called("getDailyUsage", <<r>>, HeapGetDailyUsage(heap, r), FALSE)

NextHeap ==
    \/ HeapMerge
    \/ \E i \in 1..Len(roots), p \in HeapPeriods : HeapFilter(roots[i], p)
    \/ \E i \in 1..Len(roots) : HeapSummary(roots[i])
    \/ \E i \in 1..Len(roots) : HeapBreakdown(roots[i])
    \/ \E i \in 1..Len(roots) : HeapDaily(roots[i])

SpecHeap == InitHeap /\ [][NextHeap]_vars

----------------------------------------------------------------------------
(* Properties of getModelBreakdown, getTopModel and getDailyUsage *)

\* the position of key k in the iteration order of a map
IndexOf(map, k) == CHOOSE i \in 1..Len(map) : map[i].key = k

\* p is the integer nearest to 100 * c / t (t > 0), the upper one of two
NearestPercent(p, c, t) ==
    LET num == 100 * c.n * t.d
        den == c.d * t.n
    IN  (2 * p - 1) * den <= 2 * num /\ 2 * num < (2 * p + 1) * den

\* C11: getModelBreakdown returns one entry per byModel key, with the cost of
\* the key and percentage = round(cost / totalCost x 100), every percentage
\* being 0 when totalCost is 0; the entries are in non-increasing order of
\* cost and entries of equal cost keep the iteration order of byModel;
\* getTopModel returns the first entry, a model of maximum cost, or null when
\* the breakdown is empty.
C11_ModelBreakdown ==
    models # <<>> =>
        LET d == filtered[1].val
            byModel == MapOf(d, "byModel")
            totalCost == CostOr0(d, "totalCost")
            ms == models[1]
        IN  /\ Len(ms) = Len(byModel)
            /\ \A k \in Keys(byModel) :
                 \E i \in 1..Len(ms) :
                    /\ ms[i].name = k
                    /\ ms[i].cost = CostOr0(MapGet(byModel, k), "cost")
                    /\ \A j \in 1..Len(ms) : ms[j].name = k => j = i
            /\ \A i \in 1..Len(ms) :
                 IF totalCost = QZero
                 THEN ms[i].percentage = 0
                 ELSE NearestPercent(ms[i].percentage, ms[i].cost, totalCost)
            /\ \A i, j \in 1..Len(ms) :
                 i < j =>
                    /\ ~QLess(ms[i].cost, ms[j].cost)
                    /\ ms[i].cost = ms[j].cost =>
                          IndexOf(byModel, ms[i].name) < IndexOf(byModel, ms[j].name)
            /\ topModel # <<>> =>
                 IF Len(ms) = 0
                 THEN topModel[1] = <<>>
                 ELSE /\ topModel[1] = <<ms[1]>>
                      /\ \A i \in 1..Len(ms) : ~QLess(topModel[1][1].cost, ms[i].cost)

\* the top model taken from a breakdown that the sort reordered and whose
\* percentages are rounded
C11_Witness ==
    /\ models # <<>> /\ topModel # <<>> /\ topModel[1] # <<>>
    /\ Len(models[1]) = 2
    /\ models[1][1].name = filtered[1].val.byModel[2].key
    /\ QLess(models[1][2].cost, models[1][1].cost)
    /\ 100 * models[1][1].cost.n * filtered[1].val.totalCost.d
         % (models[1][1].cost.d * filtered[1].val.totalCost.n) # 0

\* the percentages of a breakdown
Percentages(ms) == [i \in 1..Len(ms) |-> ms[i].percentage]

\* every percentage is an integer in 0..100 and the sum of the percentages is
\* within the number of models of 100
PercentagesAddUp(ms) ==
    /\ \A i \in 1..Len(ms) : ms[i].percentage \in 0..100
    /\ Abs(SumSeq(Percentages(ms)) - 100) <= Len(ms)

\* C12 as stated: for every record produced by merge or filter, each
\* percentage of the model breakdown is an integer between 0 and 100 and the
\* percentages sum to a value within (number of models) of 100.
C12_PercentageSum_Original ==
    models # <<>> => PercentagesAddUp(models[1])

\* the record's totalCost is positive and is the sum of its byModel costs
Reconciled(d) ==
    /\ QLess(QZero, CostOr0(d, "totalCost"))
    /\ QSumSeq([i \in 1..Len(MapOf(d, "byModel")) |->
                    CostOr0(MapOf(d, "byModel")[i].val, "cost")]) = d.totalCost

\* C12: for every record produced by merge or filter whose totalCost is
\* positive and equal to the sum of its byModel costs, each percentage of the
\* model breakdown is an integer between 0 and 100 and the percentages sum to
\* a value within (number of models) of 100.
C12_PercentageSum ==
    (models # <<>> /\ Reconciled(filtered[1].val)) => PercentagesAddUp(models[1])

\* the breakdown of a merged record filtered to the week, whose totalCost of 4
\* is the sum of the model costs 8/3 and 4/3, both percentages being rounded
C12_Witness ==
    /\ models # <<>>
    /\ data \in MergedRecords
    /\ period = "week" /\ filtered[1].ref = 0
    /\ Reconciled(filtered[1].val)
    /\ filtered[1].val.totalCost # data.totalCost
    /\ Percentages(models[1]) = <<67, 33>>

\* r lists len days of byDay as {date, tokens, cost}, in strictly descending
\* date order, and no day left out is more recent than a day listed
ListsRecentDays(r, byDay, len) ==
    /\ Len(r) = len
    /\ \A i \in 1..Len(r) :
         /\ DOMAIN r[i] = {"date", "tokens", "cost"}
         /\ r[i].date \in Keys(byDay)
         /\ r[i].tokens = NumOr0(MapGet(byDay, r[i].date), "tokens")
         /\ r[i].cost = CostOr0(MapGet(byDay, r[i].date), "cost")
    /\ \A i, j \in 1..Len(r) : i < j => r[i].date > r[j].date
    /\ \A k \in Keys(byDay) \ {r[i].date : i \in 1..Len(r)} :
         \A i \in 1..Len(r) : k < r[i].date

Min(a, b) == IF a < b THEN a ELSE b

\* C13 as stated: getDailyUsage returns one {date, tokens, cost} entry per
\* byDay key in strictly descending date order; when a limit K is given the
\* result is exactly the first min(K, number of days) entries of that order.
C13_DailyUsage_Original ==
    recent # <<>> =>
        LET byDay == MapOf(data, "byDay")
        IN  ListsRecentDays(recent[1], byDay,
                            IF limit = <<>> THEN Len(byDay) ELSE Min(limit[1], Len(byDay)))

\* C13: getDailyUsage returns one {date, tokens, cost} entry per byDay key in
\* strictly descending date order; when a limit K >= 1 is given the result is
\* exactly the first min(K, number of days) entries of that order, and a
\* limit of 0, like no limit, leaves every entry in the result.
C13_DailyUsage ==
    recent # <<>> =>
        LET byDay == MapOf(data, "byDay")
        IN  ListsRecentDays(recent[1], byDay,
                            IF limit # <<>> /\ limit[1] >= 1
                            THEN Min(limit[1], Len(byDay))
                            ELSE Len(byDay))

\* the two most recent of three days that byDay holds in another order
C13_Witness ==
    /\ recent # <<>>
    /\ limit = <<2>>
    /\ Has(data, "byDay") /\ Len(data.byDay) = 3
    /\ Len(recent[1]) = 2
    /\ recent[1][1].date = data.byDay[3].key
    /\ recent[1][2].date = data.byDay[1].key

----------------------------------------------------------------------------
(* Properties of validateData *)

\* the elements of a sequence
Range(seq) == {seq[i] : i \in 1..Len(seq)}

\* the input is an object in the sense of typeof, and not null
IsObjectInput == input.kind \in {"object", "array"}

\* the field checks that validateData makes on the input and that fail, each
\* named by its message
FailingChecks ==
    IF IsArray(Get(input, "daily")) \/ Truthy(Get(input, "totals"))
    THEN {m \in {"daily must be an array", "totals must be an object"} :
            \/ m = "daily must be an array"
               /\ Truthy(Get(input, "daily")) /\ ~IsArray(Get(input, "daily"))
            \/ m = "totals must be an object"
               /\ Truthy(Get(input, "totals")) /\ Typeof(Get(input, "totals")) # "object"}
    ELSE {m \in {"totalCost must be a number", "byModel must be an object",
                 "byDay must be an object"} :
            \/ m = "totalCost must be a number"
               /\ Typeof(Get(input, "totalCost")) # "number"
            \/ m = "byModel must be an object"
               /\ Truthy(Get(input, "byModel")) /\ Typeof(Get(input, "byModel")) # "object"
            \/ m = "byDay must be an object"
               /\ Truthy(Get(input, "byDay")) /\ Typeof(Get(input, "byDay")) # "object"}

\* C14: validateData never throws; for null or a non-object input it returns
\* isValid false with exactly one error and makes no further check; for any
\* other input every failing field check contributes its own error entry
\* (as many entries as failing checks, none twice), and isValid is true
\* exactly when the error list is empty.
C14_ValidateAccumulates ==
    validation # <<>> =>
        LET r == validation[1]
        IN  /\ ~r.threw
            /\ r.isValid <=> (r.errors = <<>>)
            /\ IF IsObjectInput
               THEN /\ Range(r.errors) = FailingChecks
                    /\ Len(r.errors) = Cardinality(FailingChecks)
               ELSE /\ ~r.isValid
                    /\ r.errors = <<"Data must be an object">>

\* an object with three fields of a wrong type, and the three errors for them
C14_Witness ==
    /\ validation # <<>>
    /\ IsObjectInput
    /\ Len(validation[1].errors) = 3
    /\ ~validation[1].isValid

\* the input is an object without the fields daily and totals
IsInternalShape ==
    /\ input.kind = "object"
    /\ ~Has(input.fields, "daily")
    /\ ~Has(input.fields, "totals")

\* C15: for an input of the canonical internal shape, validateData reports
\* 'totalCost must be a number' exactly when totalCost is not a number,
\* 'byModel must be an object' exactly when byModel is present and not
\* object-typed, and 'byDay must be an object' exactly when byDay is present
\* and not object-typed; a negative totalCost is valid.
C15_InternalShape ==
    (validation # <<>> /\ IsInternalShape) =>
        LET errors == Range(validation[1].errors)
        IN  /\ "totalCost must be a number" \in errors
                <=> Typeof(Get(input, "totalCost")) # "number"
            /\ "byModel must be an object" \in errors
                <=> (Has(input.fields, "byModel")
                     /\ Typeof(Get(input, "byModel")) # "object")
            /\ "byDay must be an object" \in errors
                <=> (Has(input.fields, "byDay")
                     /\ Typeof(Get(input, "byDay")) # "object")

\* the input has the field f with a value other than null
Present(f) == Has(input.fields, f) /\ ~ReadThrows(Get(input, f))

\* the input is an object with the field daily or the field totals
CarriesDailyOrTotals ==
    /\ input.kind = "object"
    /\ Present("daily") \/ Present("totals")

\* C16: for an input carrying a daily field and/or a totals field,
\* validateData reports 'daily must be an array' when daily is present and
\* not a sequence and 'totals must be an object' when totals is present and
\* not an object, in every combination of the two fields present or absent.
C16_CcusageShape ==
    (validation # <<>> /\ CarriesDailyOrTotals) =>
        LET errors == Range(validation[1].errors)
        IN  /\ (Present("daily") /\ ~IsArray(Get(input, "daily")))
                => "daily must be an array" \in errors
            /\ (Present("totals") /\ Typeof(Get(input, "totals")) # "object")
                => "totals must be an object" \in errors

----------------------------------------------------------------------------
(* Properties of transformCcusageFormat *)

\* the modelBreakdowns entries of all the daily entries, in order
RECURSIVE AllBreakdowns(_)
AllBreakdowns(daily) ==
    IF Len(daily) = 0 THEN <<>>
    ELSE (IF Has(Head(daily), "modelBreakdowns") THEN Head(daily).modelBreakdowns ELSE <<>>)
         \o AllBreakdowns(Tail(daily))

\* C17: transformCcusageFormat converts the daily-array + totals shape without
\* losing entries and additively: the sum of cost (and of tokens) over byDay
\* equals the sum of totalCost (and of totalTokens) over all daily entries,
\* including when two daily entries carry the same date, and byModel holds
\* for every model name the sums over the modelBreakdowns entries of that name.
C17_TransformAdditive ==
    (transformed # <<>> /\ Has(raw, "daily")) =>
        LET daily == raw.daily
            out == transformed[1]
            bds == AllBreakdowns(daily)
            named(k) == SelectSeq(bds, LAMBDA b : b.modelName = k)
        IN  /\ Keys(out.byDay) = {daily[i].date : i \in 1..Len(daily)}
            /\ QSumSeq([i \in 1..Len(out.byDay) |-> out.byDay[i].val.cost])
                 = QSumSeq([i \in 1..Len(daily) |-> CostOr0(daily[i], "totalCost")])
            /\ SumSeq([i \in 1..Len(out.byDay) |-> out.byDay[i].val.tokens])
                 = SumSeq([i \in 1..Len(daily) |-> NumOr0(daily[i], "totalTokens")])
            /\ Keys(out.byModel) = {bds[i].modelName : i \in 1..Len(bds)}
            /\ \A k \in Keys(out.byModel) :
                 /\ MapGet(out.byModel, k).cost
                      = QSumSeq([i \in 1..Len(named(k)) |-> CostOr0(named(k)[i], "cost")])
                 /\ MapGet(out.byModel, k).inputTokens
                      = SumSeq([i \in 1..Len(named(k)) |-> NumOr0(named(k)[i], "inputTokens")])
                 /\ MapGet(out.byModel, k).outputTokens
                      = SumSeq([i \in 1..Len(named(k)) |-> NumOr0(named(k)[i], "outputTokens")])

----------------------------------------------------------------------------
(* Properties of the period tags *)

\* C18: an unrecognized period tag is never rejected: for any tag other than
\* day, week and month, getPeriodRange returns the same range as for all
\* (startDate null and days null, so that isDateInRange accepts every date)
\* and getPeriodLabelKey returns allTime.
C18_UnknownTag ==
    (tagRange # <<>> /\ tag \notin {"day", "week", "month"}) =>
        /\ tagRange[1] = GetPeriodRange("all", now)
        /\ tagRange[1].startDate = <<>>
        /\ tagRange[1].days = <<>>
        /\ inRange = <<TRUE>>
        /\ tagLabel = <<"allTime">>

----------------------------------------------------------------------------
(* Properties of the objects *)

\* the objects that object x refers to
Refs(h, x) ==
    CASE h[x].kind = "record" -> {h[x].fields[f] : f \in DOMAIN h[x].fields \cap MapFields}
      [] h[x].kind = "map" -> {h[x].items[i].val : i \in 1..Len(h[x].items)}
      [] h[x].kind = "array" -> {h[x].items[i] : i \in 1..Len(h[x].items)}
      [] OTHER -> {}

\* the objects reached from object x: itself, its maps or elements, their entries
Reach(h, x) ==
    LET r1 == {x} \cup Refs(h, x)
    IN  r1 \cup UNION {Refs(h, y) : y \in r1}

\* C20: mergeUsageData, filterByPeriod, calculateSummary, getModelBreakdown
\* and getDailyUsage leave their input records unchanged: after any sequence
\* of these calls every object that existed before a call (its input records
\* with their byModel and byDay maps and entries) has the values it had
\* before the call, and no object of a freshly built output is an object
\* that existed before the call, so none is shared with an input.
C20_InputsUnchanged ==
    \A k \in 1..Len(calls) :
        LET c == calls[k]
        IN  /\ \A x \in 1..Len(c.pre) : heap[x] = c.pre[x]
            /\ c.result > Len(c.pre) =>
                  Reach(heap, c.result) \cap (1..Len(c.pre)) = {}

\* the merge of two records sharing a model and a day, then a day filter of
\* the merged record that keeps a day: both results are freshly built
C20_Witness ==
    /\ Len(calls) = 2
    /\ Len(dataArray) = 2
    /\ Keys(MapOf(dataArray[1], "byModel")) \cap Keys(MapOf(dataArray[2], "byModel")) # {}
    /\ Keys(MapOf(dataArray[1], "byDay")) \cap Keys(MapOf(dataArray[2], "byDay")) # {}
    /\ calls[1].op = "mergeUsageData" /\ calls[1].result > Len(calls[1].pre)
    /\ calls[2].op = "filterByPeriod" /\ calls[2].args = <<calls[1].result>>
    /\ calls[2].result > Len(calls[2].pre)
    /\ Len(Load(heap, calls[2].result).byDay) = 1
    /\ Load(heap, calls[1].result) = MergeUsageData(dataArray).val

----------------------------------------------------------------------------
(* Reading several sources: parseMultipleUsageData and the CLI merge command *)

\* jsonPaths.map(async (path) => ...) has started one read per input path
InitRead ==
    /\ files \in FileLists
    /\ mode \in {"parseMultiple", "cliMerge"}
    /\ slots = [i \in 1..Len(files) |-> <<>>]
    /\ completed = <<>>
    /\ outcome = <<>>
    /\ InitMergeIdle
    /\ InitProcessIdle
    /\ InitCallIdle

\* the callback of path i after its readFile: JSON.parse, and in
\* parseMultipleUsageData transformCcusageFormat
ReadValue(i) ==
    IF mode = "parseMultiple" THEN TransformCcusageFormat(files[i]) ELSE files[i]

\* the read of path i completes and its promise is fulfilled
ReadDone(i) ==
    /\ slots[i] = <<>>
    /\ i \notin {completed[j] : j \in 1..Len(completed)}
    /\ slots' = [slots EXCEPT ![i] = <<ReadValue(i)>>]
    /\ completed' = Append(completed, i)
    /\ UNCHANGED <<files, mode, outcome, mergeVars, processVars, callVars>>

\* the read of path i fails (ENOENT, or JSON.parse throws): its promise is
\* rejected, so is Promise.all, and the caller's catch reports the error
ReadFail(i) ==
    /\ slots[i] = <<>>
    /\ i \notin {completed[j] : j \in 1..Len(completed)}
    /\ completed' = Append(completed, i)
    /\ outcome' = IF outcome = <<>> THEN <<[ok |-> FALSE]>> ELSE outcome
    /\ UNCHANGED <<files, mode, slots, mergeVars, processVars, callVars>>

\* every promise is fulfilled: Promise.all resolves and the array is merged
MergeRead ==
    /\ outcome = <<>>
    /\ \A i \in 1..Len(slots) : slots[i] # <<>>
    /\ outcome' = <<[ok |-> TRUE,
                     merged |-> MergeUsageData(PromiseAll(slots, completed)).val,
                     sourceCount |-> Len(slots)]>>
    /\ UNCHANGED <<files, mode, slots, completed, mergeVars, processVars, callVars>>

NextRead ==
    \/ \E i \in 1..Len(files) : ReadDone(i)
    \/ \E i \in 1..Len(files) : ReadFail(i)
    \/ MergeRead

SpecRead == InitRead /\ [][NextRead]_vars

\* C9: when several source files are read concurrently, the merged record is
\* the same for every order in which the reads complete: it is the merge of
\* the sources taken in input-path order.
C9_ReadOrder ==
    (outcome # <<>> /\ outcome[1].ok) =>
        outcome[1].merged =
            MergeUsageData([i \in 1..Len(files) |-> ReadValue(i)]).val

\* three reads completed last path first, where merging in completion order
\* would have given another record
C9_Witness ==
    /\ outcome # <<>> /\ outcome[1].ok
    /\ completed = <<3, 2, 1>>
    /\ MergeUsageData(PromiseAllCompletionOrder(slots, completed)).val # outcome[1].merged

----------------------------------------------------------------------------
(* updater.js: findMarkers, insertContent, hasMarkers, addMarkers *)

\* A JavaScript string is the sequence of its characters; positions are
\* counted from 0 as indexOf and substring count them.
START_MARKER ==
    <<"<", "!", "-", "-", " ", "V", "I", "B", "E", "-", "D", "A", "S",
    "H", "B", "O", "A", "R", "D", ":", "S", "T", "A", "R", "T", " ", "-",
    "-", ">">>
END_MARKER ==
    <<"<", "!", "-", "-", " ", "V", "I", "B", "E", "-", "D", "A", "S",
    "H", "B", "O", "A", "R", "D", ":", "E", "N", "D", " ", "-", "-",
    ">">>

\* whether pattern occurs in content at position i (from 0)
OccursAt(content, pattern, i) ==
    /\ i + Len(pattern) <= Len(content)
    /\ \A k \in 1..Len(pattern) : content[i + k] = pattern[k]

\* content.indexOf(pattern): the first position of pattern, or -1
StrIndexOf(content, pattern) ==
    LET occ == {i \in 0..Len(content) : OccursAt(content, pattern, i)}
    IN  IF occ = {} THEN -1 ELSE CHOOSE i \in occ : \A j \in occ : i <= j

\* str.substring(from, to) for 0 <= from <= to <= str.length
Substring(str, from, to) == SubSeq(str, from + 1, to)

\* findMarkers(content): <<>> for null, or <<positions>>
FindMarkers(content) ==
    LET startIndex == StrIndexOf(content, START_MARKER)
        endIndex == StrIndexOf(content, END_MARKER)
    IN  IF startIndex = -1 \/ endIndex = -1 THEN <<>>
        ELSE IF endIndex <= startIndex THEN <<>>
        ELSE <<[start |-> startIndex,
                startEnd |-> startIndex + Len(START_MARKER),
                end |-> endIndex,
                endEnd |-> endIndex + Len(END_MARKER)]>>

\* insertContent with `after` taken from markers.endEnd: the END marker is lost
InsertContentDropEnd(original, newContent) ==
    LET markers == FindMarkers(original)
    IN  IF markers = <<>>
        THEN [success |-> FALSE, content |-> original, message |-> "Markers not found"]
        ELSE [success |-> TRUE,
              content |-> Substring(original, 0, markers[1].startEnd) \o <<"\n">>
                          \o newContent \o <<"\n">>
                          \o Substring(original, markers[1].endEnd, Len(original)),
              message |-> "Content inserted successfully"]

\* insertContent(original, newContent)
InsertContent(original, newContent) ==
    LET markers == FindMarkers(original)
    IN  IF markers = <<>>
        THEN [success |-> FALSE, content |-> original, message |-> "Markers not found"]
        ELSE LET before == Substring(original, 0, markers[1].startEnd)
                 after == Substring(original, markers[1].end, Len(original))
             IN  [success |-> TRUE,
                  content |-> before \o <<"\n">> \o newContent \o <<"\n">> \o after,
                  message |-> "Content inserted successfully"]

\* hasMarkers(readmePath), file being <<>> for no file (readFile throws) or <<content>>
HasMarkers(file) ==
    IF file = <<>> THEN FALSE ELSE FindMarkers(file[1]) # <<>>

\* addMarkers(readmePath): [file, success, message], file being the file afterwards
AddMarkers(file) ==
    IF file = <<>>
    THEN [file |-> file, success |-> FALSE, message |-> "File not found"]
    ELSE IF FindMarkers(file[1]) # <<>>
         THEN [file |-> file, success |-> TRUE, message |-> "Markers already exist"]
         ELSE LET markersBlock == <<"\n", "\n">> \o START_MARKER \o <<"\n">>
                                  \o END_MARKER \o <<"\n">>
              IN  [file |-> <<file[1] \o markersBlock>>, success |-> TRUE,
                   message |-> "Markers added to README"]

\* the pieces documents are made of: the markers, text, a line break and a
\* marker cut short
Pieces ==
    {START_MARKER, END_MARKER, <<"o", "l", "d">>, <<"\n">>, SubSeq(START_MARKER, 1, 20)}

RECURSIVE DocumentsOf(_)
\* the documents of exactly n pieces
DocumentsOf(n) ==
    IF n = 0 THEN {<<>>}
    ELSE {d \o q : d \in DocumentsOf(n - 1), q \in Pieces}

Documents == UNION {DocumentsOf(n) : n \in 0..MaxPieces}

\* the contents inserted: nothing, a line, two lines
NewContents == {<<>>, <<"n", "e", "w">>, <<"1", "\n", "2">>}

----------------------------------------------------------------------------
(* The calls of insertContent and the runs of the init command *)

InitUpdater ==
    /\ readme \in {<<>>} \cup {<<d>> : d \in Documents}
    /\ newText \in NewContents
    /\ inserted = <<>>
    /\ inits = <<>>
    /\ InitDashIdle
    /\ InitGenIdle
    /\ InitMergeIdle
    /\ InitProcessIdle
    /\ InitReadIdle
    /\ InitDailyIdle
    /\ InitValidateIdle
    /\ InitTransformIdle
    /\ InitPeriodIdle
    /\ InitHeapIdle

\* insertContent(original, newText), original being the content of the README
InsertCall ==
    /\ readme # <<>>
    /\ inserted = <<>>
    /\ inserted' = <<[original |-> readme[1],
                      result |-> InsertContent(readme[1], newText)]>>
    /\ UNCHANGED <<readme, newText, inits>>
    /\ UNCHANGED <<mergeVars, processVars, readVars, dailyVars, validateVars,
                   transformVars, periodVars, heapVars, dashVars, genVars>>

\* the action of the init command: hasMarkers, then addMarkers when it is false
InitCommand ==
    /\ Len(inits) < MaxInits
    /\ LET has == HasMarkers(readme)
           result == AddMarkers(readme)
       IN  IF has
           THEN /\ inits' = Append(inits, [has |-> TRUE, success |-> TRUE,
                                           before |-> readme, after |-> readme])
                /\ UNCHANGED readme
           ELSE /\ readme' = result.file
                /\ inits' = Append(inits, [has |-> FALSE, success |-> result.success,
                                           before |-> readme, after |-> result.file])
    /\ UNCHANGED <<newText, inserted>>
    /\ UNCHANGED <<mergeVars, processVars, readVars, dailyVars, validateVars,
                   transformVars, periodVars, heapVars, dashVars, genVars>>

NextUpdater ==
    \/ InsertCall
    \/ InitCommand

SpecUpdater == InitUpdater /\ [][NextUpdater]_vars

----------------------------------------------------------------------------
(* Properties of insertContent and of the init command *)

\* the positions (from 0) at which pattern occurs in content
Occurrences(content, pattern) ==
    {i \in 0..Len(content) : OccursAt(content, pattern, i)}

\* the least element of a non-empty set of numbers
Least(S) == CHOOSE i \in S : \A j \in S : i <= j

\* a document has a valid marker pair when both markers occur in it and its
\* first START marker lies before its first END marker
HasValidPair(content) ==
    /\ Occurrences(content, START_MARKER) # {}
    /\ Occurrences(content, END_MARKER) # {}
    /\ Least(Occurrences(content, START_MARKER)) < Least(Occurrences(content, END_MARKER))

\* C21: insertContent on a document with a valid marker pair succeeds and
\* returns the document in which only the text strictly between the START and
\* END markers is replaced by newline + new content + newline: everything up
\* to and including the START marker and everything from the END marker on is
\* kept character for character; on a document without a valid marker pair
\* it returns success false and the original document.
C21_InsertBetweenMarkers ==
    inserted # <<>> =>
        LET o == inserted[1].original
            r == inserted[1].result
        IN  IF HasValidPair(o)
            THEN LET head == Least(Occurrences(o, START_MARKER)) + Len(START_MARKER)
                     tail == Least(Occurrences(o, END_MARKER))
                     mid == <<"\n">> \o newText \o <<"\n">>
                 IN  /\ r.success
                     /\ Len(r.content) = head + Len(mid) + (Len(o) - tail)
                     /\ \A k \in 1..head : r.content[k] = o[k]
                     /\ \A k \in 1..Len(mid) : r.content[head + k] = mid[k]
                     /\ \A k \in 1..(Len(o) - tail) :
                           r.content[head + Len(mid) + k] = o[tail + k]
            ELSE /\ ~r.success
                 /\ r.content = o

\* old text between the markers and text after the END marker: the old text
\* is replaced by two lines, the rest is kept
C21_Witness ==
    /\ inserted # <<>>
    /\ inserted[1].original = START_MARKER \o <<"o", "l", "d">> \o END_MARKER \o <<"\n">>
    /\ newText = <<"1", "\n", "2">>
    /\ inserted[1].result.success
    /\ inserted[1].result.content =
          START_MARKER \o <<"\n", "1", "\n", "2", "\n">> \o END_MARKER \o <<"\n">>

\* C29: after addMarkers returns success on an existing file the file has a
\* valid marker pair (hasMarkers is true), and the init sequence is
\* idempotent: a further run finds the markers and leaves the file as it is,
\* whatever the file contained at first.
C29_InitIdempotent ==
    \A k \in 1..Len(inits) :
        (inits[k].before # <<>> /\ inits[k].success) =>
            /\ HasMarkers(inits[k].after)
            /\ k > 1 => (inits[k].has /\ inits[k].after = inits[k].before)

----------------------------------------------------------------------------
(* utils.js: mergeConfig; cli.js: the generate command; index.js: loadConfig,
   generateDashboard; generator.js: generate; updater.js: updateReadme, writeSVG *)

\* { ...a, ...b }: the properties of a, then those of b over them
Spread(a, b) ==
    [f \in DOMAIN a \cup DOMAIN b |-> IF f \in DOMAIN b THEN b[f] ELSE a[f]]

\* getDefaultConfig(): the scalar settings a user can override
GetDefaultConfig ==
    [theme |-> "dark", layout |-> "card", period |-> "all", language |-> "en"]

\* mergeConfig(userConfig), showItems apart
MergeConfig(userConfig) == Spread(GetDefaultConfig, userConfig)

\* the options commander hands to the action of `generate`: the defaults
\* declared with .option(), under the options given on the command line
CommanderOptions(given) ==
    Spread([config |-> "./vibe-config.json", output |-> "./README.md", period |-> "all"],
           given)

\* configOverrides: the options among theme, layout, language, period that
\* are truthy
ConfigOverrides(options) ==
    [f \in {g \in {"theme", "layout", "language", "period"} :
               Has(options, g) /\ options[g] # ""} |-> options[f]]

\* the argument the action of `generate` gives to generateDashboard;
\* undefined is <<>>
GenerateArgument(options) ==
    [configPath |-> <<options.config>>,
     outputPath |-> options.output,
     svgPath |-> IF Has(options, "svgOutput") THEN <<options.svgOutput>> ELSE <<>>,
     config |-> IF DOMAIN ConfigOverrides(options) # {}
                THEN <<ConfigOverrides(options)>> ELSE <<>>]

\* loadConfig in which every error of reading the file counts as a missing file
LoadConfigAnyErrorIgnored(file, configPath, directConfig) ==
    LET fileConfig == IF configPath # <<>> /\ file.kind = "json"
                      THEN file.value ELSE EmptyObj
        userConfig == Spread(fileConfig,
                             IF directConfig = <<>> THEN EmptyObj ELSE directConfig[1])
    IN  [threw |-> FALSE, config |-> MergeConfig(userConfig)]

\* loadConfig(configPath, directConfig): file is the state of the config
\* file; a file that is absent (ENOENT) gives the defaults, a content that
\* JSON.parse rejects throws
LoadConfig(file, configPath, directConfig) ==
    LET fileConfig == IF configPath # <<>> /\ file.kind = "json"
                      THEN file.value ELSE EmptyObj
        userConfig == Spread(fileConfig,
                             IF directConfig = <<>> THEN EmptyObj ELSE directConfig[1])
    IN  IF configPath # <<>> /\ file.kind = "badjson"
        THEN [threw |-> TRUE, config |-> EmptyObj]
        ELSE [threw |-> FALSE, config |-> MergeConfig(userConfig)]

\* the kinds of the fields of a record that transformCcusageFormat or
\* filterByPeriod builds: number totals, byModel and byDay objects (the
\* numbers themselves are not followed here)
BuiltRecord ==
    JsObject([totalCost |-> JsNumber(0), totalInputTokens |-> JsNumber(0),
              totalOutputTokens |-> JsNumber(0),
              totalCacheCreationInputTokens |-> JsNumber(0),
              totalCacheReadInputTokens |-> JsNumber(0),
              byModel |-> JsObject(EmptyObj), byDay |-> JsObject(EmptyObj)])

\* the lines of generateDashboard from reading the input to the period
\* filter, for one input path: [error, raw], raw being data.raw.  The content
\* is returned as it is by transformCcusageFormat when it has a totalCost and
\* no daily, and is rebuilt otherwise; with a period other than all the raw
\* record is the one filterByPeriod builds.
ParseInput(file, config) ==
    IF file.kind = "absent" THEN [error |-> "Input file not found", raw |-> JsUndefined]
    ELSE IF file.kind = "badjson" \/ ReadThrows(file.value)
    THEN [error |-> "Failed to parse input", raw |-> JsUndefined]
    ELSE LET rawData == file.value
             transformedData == IF Get(rawData, "totalCost") # JsUndefined
                                   /\ ~Truthy(Get(rawData, "daily"))
                                THEN rawData ELSE BuiltRecord
         IN  [error |-> "",
              raw |-> IF config.period # "" /\ config.period # "all"
                      THEN BuiltRecord ELSE transformedData]

\* the title line of generateMarkdown and the table under it
GenerateMarkdown(config) ==
    <<"## Vibe Dashboard">>
    \o (IF config.period # "all" /\ config.period # ""
        THEN <<" (", GetPeriodLabelKey(config.period), ")">> ELSE <<>>)
    \o <<"\n", "| Metric | Value |", "\n">>

\* the root element of generateSVG
GenerateSVG(config) ==
    <<"<svg>", IF config.layout = "detailed" THEN "370" ELSE "320", "</svg>">>

\* generate without an SVG for every layout other than card
GenerateSvgForCardOnly(config) ==
    [markdown |-> GenerateMarkdown(config),
     svg |-> IF config.layout # "card" THEN <<>> ELSE <<GenerateSVG(config)>>]

\* generate(data, config): [markdown, svg], svg being <<>> for null
Generate(config) ==
    [markdown |-> GenerateMarkdown(config),
     svg |-> IF config.layout = "minimal" THEN <<>> ELSE <<GenerateSVG(config)>>]

\* the last position of character c in str (from 1), 0 when there is none
LastIndexOf(str, c) ==
    LET occ == {i \in 1..Len(str) : str[i] = c}
    IN  IF occ = {} THEN 0 ELSE CHOOSE i \in occ : \A j \in occ : j <= i

\* str.split(c).pop(): what follows the last c
SplitPop(str, c) == SubSeq(str, LastIndexOf(str, c) + 1, Len(str))

\* svgPath && svg
SvgWanted(svgPath, svg) ==
    /\ svgPath # <<>> /\ svgPath[1] # <<>>
    /\ svg # <<>> /\ svg[1] # <<>>

\* readmeContent: the image tag when an SVG path is given and an SVG was
\* generated, the markdown otherwise
ReadmeContent(svgPath, out) ==
    IF SvgWanted(svgPath, out.svg)
    THEN LET svgFileName == SplitPop(SplitPop(svgPath[1], "/"), "\\")
         IN  <<"![Vibe Dashboard](./">> \o svgFileName \o <<")">>
    ELSE out.markdown

\* updateReadme(readmePath, content): [file, success, message], file being
\* the file afterwards
UpdateReadme(file, content) ==
    IF file = <<>>
    THEN [file |-> file, success |-> FALSE, message |-> "File not found"]
    ELSE LET result == InsertContent(file[1], content)
         IN  IF ~result.success
             THEN [file |-> file, success |-> FALSE, message |-> result.message]
             ELSE [file |-> <<result.content>>, success |-> TRUE,
                   message |-> "README updated successfully"]

\* writeSVG(svgPath, svgContent): [written, success], written being the set
\* of the paths written
WriteSVG(svgPath, writable) ==
    IF writable
    THEN [written |-> {svgPath}, success |-> TRUE]
    ELSE [written |-> {}, success |-> FALSE]

\* the options given on the command line
Given(name, S) == {EmptyObj} \cup {[f \in {name} |-> v] : v \in S}

SvgPaths == {<<"c">>, <<"a", "/", "c">>, <<"a", "\\", "c">>}

CommandLines ==
    {Spread(Spread(a, b), c) :
        a \in Given("period", {"week"}),
        b \in Given("layout", {"minimal", "detailed"}),
        c \in Given("svgOutput", SvgPaths)}

ConfigFiles ==
    {[kind |-> "absent"], [kind |-> "badjson"]}
    \cup {[kind |-> "json", value |-> v] :
            v \in {EmptyObj, [period |-> "month"], [layout |-> "minimal", period |-> "day"]}}

InputFiles ==
    {[kind |-> "absent"], [kind |-> "badjson"]}
    \cup {[kind |-> "json", value |-> v] :
            v \in {JsNull,
                   JsObject([totalCost |-> JsNumber(1)]),
                   JsObject([totalCost |-> JsString("x")]),
                   JsObject([daily |-> JsArray, totals |-> JsObject(EmptyObj)])}}

ReadmeFiles ==
    {<<>>,
     <<<<"o", "l", "d">>>>,
     <<<<"\n">> \o START_MARKER \o <<"o", "l", "d">> \o END_MARKER>>}

----------------------------------------------------------------------------
(* The generate command: the steps of generateDashboard *)

\* the local variables of generateDashboard; <<>> is a variable not yet set
InitRun ==
    [pc |-> "cli", options |-> <<>>, config |-> <<>>, raw |-> <<>>, out |-> <<>>,
     readmeContent |-> <<>>, readmeBefore |-> readme, result |-> <<>>]

InitDashboard ==
    /\ argv \in CommandLines
    /\ configFile \in ConfigFiles
    /\ inputFile \in InputFiles
    /\ svgWritable \in BOOLEAN
    /\ readme \in ReadmeFiles
    /\ run = InitRun
    /\ svgFiles = {}
    /\ trace = <<>>
    /\ newText = <<>>
    /\ inserted = <<>>
    /\ inits = <<>>
    /\ InitGenIdle
    /\ InitMergeIdle
    /\ InitProcessIdle
    /\ InitReadIdle
    /\ InitDailyIdle
    /\ InitValidateIdle
    /\ InitTransformIdle
    /\ InitPeriodIdle
    /\ InitHeapIdle

\* what a step of the run leaves alone
DashFrame ==
    UNCHANGED <<argv, configFile, inputFile, svgWritable, newText, inserted, inits,
                mergeVars, processVars, readVars, dailyVars, validateVars,
                transformVars, periodVars, heapVars, genVars>>

\* return { success: false, error }
Failed(step, error) ==
    /\ run' = [run EXCEPT !.pc = "done",
                          !.result = <<[success |-> FALSE, error |-> error]>>]
    /\ trace' = Append(trace, step)

\* the action of the generate command up to its call of generateDashboard
CliGenerate ==
    /\ run.pc = "cli"
    /\ run' = [run EXCEPT !.pc = "loadConfig",
                          !.options = <<GenerateArgument(CommanderOptions(argv))>>]
    /\ UNCHANGED <<readme, svgFiles, trace>>
    /\ DashFrame

\* config = await loadConfig(configPath, directConfig)
LoadConfigStep ==
    /\ run.pc = "loadConfig"
    /\ LET loaded == LoadConfig(configFile, run.options[1].configPath, run.options[1].config)
       IN  IF loaded.threw
           THEN Failed("loadConfig", "Config error")
           ELSE /\ run' = [run EXCEPT !.pc = "parse", !.config = <<loaded.config>>]
                /\ trace' = Append(trace, "loadConfig")
    /\ UNCHANGED <<readme, svgFiles>>
    /\ DashFrame

\* reading and parsing the input, and the period filter
ParseStep ==
    /\ run.pc = "parse"
    /\ LET parsed == ParseInput(inputFile, run.config[1])
       IN  IF parsed.error # ""
           THEN Failed("parse", parsed.error)
           ELSE /\ run' = [run EXCEPT !.pc = "validate", !.raw = <<parsed.raw>>]
                /\ trace' = Append(trace, "parse")
    /\ UNCHANGED <<readme, svgFiles>>
    /\ DashFrame

\* validation = validateData(data.raw)
ValidateStep ==
    /\ run.pc = "validate"
    /\ LET checked == ValidateData(run.raw[1])
       IN  IF checked.threw
           THEN /\ run' = [run EXCEPT !.pc = "threw"]
                /\ trace' = Append(trace, "validate")
           ELSE IF ~checked.isValid
           THEN Failed("validate", "Invalid data")
           ELSE /\ run' = [run EXCEPT !.pc = "render"]
                /\ trace' = Append(trace, "validate")
    /\ UNCHANGED <<readme, svgFiles>>
    /\ DashFrame

\* generate(data, config) and the choice of readmeContent
RenderStep ==
    /\ run.pc = "render"
    /\ LET out == Generate(run.config[1])
       IN  run' = [run EXCEPT !.pc = "updateReadme", !.out = <<out>>,
                              !.readmeContent =
                                  <<ReadmeContent(run.options[1].svgPath, out)>>]
    /\ trace' = Append(trace, "render")
    /\ UNCHANGED <<readme, svgFiles>>
    /\ DashFrame

\* readmeResult = await updateReadme(outputPath, readmeContent)
UpdateReadmeStep ==
    /\ run.pc = "updateReadme"
    /\ LET readmeResult == UpdateReadme(readme, run.readmeContent[1])
       IN  /\ readme' = readmeResult.file
           /\ IF ~readmeResult.success
              THEN Failed("updateReadme", readmeResult.message)
              ELSE /\ run' = [run EXCEPT !.pc = "writeSVG"]
                   /\ trace' = Append(trace, "updateReadme")
    /\ UNCHANGED svgFiles
    /\ DashFrame

\* the call of writeSVG when an SVG path is given and an SVG was generated,
\* and the return of success
WriteSvgStep ==
    /\ run.pc = "writeSVG"
    /\ IF SvgWanted(run.options[1].svgPath, run.out[1].svg)
       THEN /\ svgFiles' = svgFiles
                             \cup WriteSVG(run.options[1].svgPath[1], svgWritable).written
            /\ trace' = Append(trace, "writeSVG")
       ELSE UNCHANGED <<svgFiles, trace>>
    /\ run' = [run EXCEPT !.pc = "done",
                          !.result = <<[success |-> TRUE,
                                        period |-> run.config[1].period]>>]
    /\ UNCHANGED readme
    /\ DashFrame

NextDashboard ==
    \/ CliGenerate
    \/ LoadConfigStep
    \/ ParseStep
    \/ ValidateStep
    \/ RenderStep
    \/ UpdateReadmeStep
    \/ WriteSvgStep

SpecDashboard == InitDashboard /\ [][NextDashboard]_vars

----------------------------------------------------------------------------
(* Properties of the generate command *)

\* an SVG path was given on the command line
SvgPathGiven == Has(argv, "svgOutput")

\* the README has been updated by the run
ReadmeUpdated == run.pc = "writeSVG" \/ (run.pc = "done" /\ run.result[1].success)

\* content is the image reference to the file called name
IsImageReference(content) ==
    /\ Len(content) >= 3
    /\ content[1] = "![Vibe Dashboard](./"
    /\ content[Len(content)] = ")"

\* the name of the file an image reference refers to
ReferencedFile(content) == SubSeq(content, 2, Len(content) - 1)

\* C22: generate returns a null svg exactly when the layout is minimal, and
\* generateDashboard puts the image reference into the README exactly when an
\* SVG path is given and an SVG was generated; in every other case the README
\* receives the Markdown rendering and no SVG file is written.
C22_SvgOrMarkdown ==
    /\ run.out # <<>> => (run.out[1].svg = <<>> <=> run.config[1].layout = "minimal")
    /\ ReadmeUpdated =>
          /\ readme = <<InsertContent(run.readmeBefore[1], run.readmeContent[1]).content>>
          /\ IF SvgPathGiven /\ run.out[1].svg # <<>>
             THEN IsImageReference(run.readmeContent[1])
             ELSE run.readmeContent[1] = run.out[1].markdown
    /\ (run.out = <<>> \/ ~SvgPathGiven \/ run.out[1].svg = <<>>) => svgFiles = {}

\* a finished run with an SVG path and the minimal layout: the README holds
\* the Markdown rendering and no SVG file was written
C22_Witness ==
    /\ run.pc = "done" /\ run.result[1].success
    /\ SvgPathGiven
    /\ run.config[1].layout = "minimal"
    /\ ~IsImageReference(run.readmeContent[1])
    /\ readme # run.readmeBefore
    /\ svgFiles = {}

\* the steps of generateDashboard
Steps == <<"loadConfig", "parse", "validate", "render", "updateReadme", "writeSVG">>

\* a cause of failure named by C26 holds in the run
FailureCause ==
    \/ configFile.kind = "badjson"
    \/ inputFile.kind # "json" \/ inputFile.value = JsNull
    \/ run.raw # <<>> /\ ~ValidateData(run.raw[1]).isValid
    \/ run.readmeBefore = <<>>
    \/ run.readmeBefore # <<>> /\ ~HasValidPair(run.readmeBefore[1])

\* C26: the steps of generateDashboard run in the order load config, read and
\* parse inputs, validate, render, update README, write SVG; if config
\* loading, reading or parsing the input, or validation fails, or the README
\* has no valid marker pair, the run returns success false and neither the
\* README nor an SVG file is modified; the SVG file is written only after
\* the README update has succeeded.
C26_StepsAndFailures ==
    /\ Len(trace) <= Len(Steps) /\ trace = SubSeq(Steps, 1, Len(trace))
    /\ FailureCause =>
          /\ readme = run.readmeBefore
          /\ svgFiles = {}
          /\ run.pc = "done" => ~run.result[1].success
    /\ (svgFiles # {} \/ (trace # <<>> /\ trace[Len(trace)] = "writeSVG")) =>
          /\ run.pc = "done" /\ run.result[1].success
          /\ readme # <<>>
          /\ readme = <<InsertContent(run.readmeBefore[1], run.readmeContent[1]).content>>

\* a run that rendered the card for an SVG path and found a README without
\* markers: it stops at the README update, nothing is written
C26_Witness ==
    /\ run.pc = "done" /\ ~run.result[1].success
    /\ trace = SubSeq(Steps, 1, 5)
    /\ SvgPathGiven /\ run.out[1].svg # <<>>
    /\ run.readmeBefore = <<<<"o", "l", "d">>>>
    /\ readme = run.readmeBefore
    /\ svgFiles = {}

\* C27: whenever generateDashboard returns success true after writing the
\* image reference into the README, the SVG file the README refers to has
\* been written in the same run.
C27_ReferencedSvgWritten ==
    (run.pc = "done" /\ run.result[1].success /\ IsImageReference(run.readmeContent[1])) =>
        ReferencedFile(run.readmeContent[1]) \in svgFiles

\* C28: the configuration applied is, for each setting, the option given on
\* the command line, else the value of the config file, else the default: an
\* option that was not given never overrides the file's value, so without
\* --period the period of the config file is applied.
C28_ConfigPrecedence ==
    run.config # <<>> =>
        \A f \in {"period", "layout"} :
            run.config[1][f] =
                IF Has(argv, f) THEN argv[f]
                ELSE IF configFile.kind = "json" /\ Has(configFile.value, f)
                     THEN configFile.value[f]
                     ELSE GetDefaultConfig[f]

----------------------------------------------------------------------------
(* index.js: generateFromData; generator.js: the period stats of generateSVG *)

\* now.toISOString().split('T')[0]: the date key of the UTC day of a Date
ToDateKey(date) == date.day

\* new Date(now - n * 24 * 60 * 60 * 1000): the Date n days before
DaysBefore(date, n) == [day |-> date.day - n, ms |-> date.ms]

\* the sums before the loop
ZeroStats ==
    [dailyTokens |-> 0, dailyCost |-> QZero,
     weeklyTokens |-> 0, weeklyCost |-> QZero,
     monthlyTokens |-> 0, monthlyCost |-> QZero]

\* the body of `for (const day of dailyUsage)`; date keys of the form
\* YYYY-MM-DD compare as strings the way their days compare
PeriodStatsDay(acc, day, todayStr, weekAgo, monthAgo) ==
    LET a1 == IF day.date = todayStr
              THEN [acc EXCEPT !.dailyTokens = @ + day.tokens,
                               !.dailyCost = QAdd(@, day.cost)]
              ELSE acc
        a2 == IF day.date >= weekAgo
              THEN [a1 EXCEPT !.weeklyTokens = @ + day.tokens,
                              !.weeklyCost = QAdd(@, day.cost)]
              ELSE a1
    IN  IF day.date >= monthAgo
        THEN [a2 EXCEPT !.monthlyTokens = @ + day.tokens,
                        !.monthlyCost = QAdd(@, day.cost)]
        ELSE a2

RECURSIVE PeriodStatsLoop(_, _, _, _)
\* for (const day of dailyUsage), from element i
PeriodStatsLoop(acc, usage, i, nowDate) ==
    IF i > Len(usage) THEN acc
    ELSE PeriodStatsLoop(
            PeriodStatsDay(acc, usage[i], ToDateKey(nowDate),
                           ToDateKey(DaysBefore(nowDate, 7)),
                           ToDateKey(DaysBefore(nowDate, 30))),
            usage, i + 1, nowDate)

\* the Today, This Week and This Month figures of generateSVG
PeriodStats(usage, nowDate) == PeriodStatsLoop(ZeroStats, usage, 1, nowDate)

\* the record of the filterByPeriod tests: total 300, one model of cost 300,
\* six days of cost 50: today, 1, 2, 4, 10 and 40 days ago
SixDays ==
    [totalCost |-> QInt(300),
     totalInputTokens |-> 3000000,
     totalOutputTokens |-> 1500000,
     totalCacheCreationInputTokens |-> 0,
     totalCacheReadInputTokens |-> 0,
     byModel |-> Map1("claude-sonnet-4-20250514",
                      [cost |-> QInt(300), inputTokens |-> 3000000,
                       outputTokens |-> 1500000]),
     byDay |-> [i \in 1..6 |->
                  [key |-> Today - <<0, 1, 2, 4, 10, 40>>[i],
                   val |-> [cost |-> QInt(50), tokens |-> 500000]]]]

\* the records given to generateFromData: the record of the tests, and
\* records with any total cost and any days around the ends of the windows
GenRecords ==
    {SixDays}
    \cup {Field("totalCost", c)
          @@ [totalInputTokens |-> 3, totalOutputTokens |-> 1]
          @@ [byModel |-> Map1("m1", [cost |-> QInt(1), inputTokens |-> 3,
                                      outputTokens |-> 1])]
          @@ Field("byDay", d) : c \in CostChoices, d \in DayChoices}

\* the configs given to generateFromData: none, or a period
GenConfigs == {EmptyObj} \cup {[period |-> p] : p \in Periods}

----------------------------------------------------------------------------
(* The steps of generateFromData(rawData, config) for a record *)

InitGenerate ==
    /\ rawInput \in GenRecords
    /\ genConfig \in {MergeConfig(c) : c \in GenConfigs}
    /\ gen = [pc |-> "filter", filteredData |-> <<>>, processed |-> <<>>,
              card |-> <<>>, times |-> <<>>]
    /\ InitUpdaterIdle
    /\ InitDashIdle
    /\ InitMergeIdle
    /\ InitProcessIdle
    /\ InitReadIdle
    /\ InitDailyIdle
    /\ InitValidateIdle
    /\ InitTransformIdle
    /\ InitPeriodIdle
    /\ InitHeapIdle

\* what a step of generateFromData leaves alone
GenFrame ==
    UNCHANGED <<rawInput, genConfig, updaterVars, dashVars, mergeVars, processVars,
                readVars, dailyVars, validateVars, transformVars, periodVars, heapVars>>

\* filteredData = filterByPeriod(mergedData, mergedConfig.period || 'all'),
\* at time of day ms of the reference day
GenFilter(ms) ==
    /\ gen.pc = "filter"
    /\ gen' = [gen EXCEPT
                 !.pc = "process",
                 !.filteredData =
                     <<FilterByPeriod(rawInput,
                                      IF genConfig.period = "" THEN "all"
                                      ELSE genConfig.period,
                                      [day |-> Today, ms |-> ms])>>,
                 !.times = Append(@, ms)]
    /\ GenFrame

\* data = processData(filteredData, mergedConfig.period)
GenProcess(ms) ==
    /\ gen.pc = "process"
    /\ LET again == FilterByPeriod(gen.filteredData[1].val, genConfig.period,
                                   [day |-> Today, ms |-> ms])
       IN  gen' = [gen EXCEPT
                     !.pc = "render",
                     !.processed =
                         <<[summary |-> CalculateSummary(again.val),
                            models |-> GetModelBreakdown(again.val),
                            dailyUsage |-> GetDailyUsage(again.val, <<>>),
                            raw |-> again.val,
                            period |-> genConfig.period]>>,
                     !.times = Append(@, ms)]
    /\ GenFrame

\* generate(data, mergedConfig): the period stats of generateSVG
GenRender(ms) ==
    /\ gen.pc = "render"
    /\ gen' = [gen EXCEPT
                 !.pc = "done",
                 !.card = IF genConfig.layout = "minimal" THEN <<>>
                          ELSE <<PeriodStats(gen.processed[1].dailyUsage,
                                             [day |-> Today, ms |-> ms])>>,
                 !.times = Append(@, ms)]
    /\ GenFrame

NextGenerate ==
    \/ \E ms \in TimesOfDay : GenFilter(ms)
    \/ \E ms \in TimesOfDay : GenProcess(ms)
    \/ \E ms \in TimesOfDay : GenRender(ms)

SpecGenerate == InitGenerate /\ [][NextGenerate]_vars

----------------------------------------------------------------------------
(* Properties of generateFromData *)

\* the week filter has been applied to the record of the tests
SixDaysByWeek ==
    /\ rawInput = SixDays
    /\ genConfig.period = "week"
    /\ gen.filteredData # <<>>

\* C23 as stated: filtering by week the record with totalCost 300, one model
\* of cost 300 and six days of cost 50, four of them in the window, yields
\* totalCost 200 and a filtered model cost of 200 x (200/300).
C23_SixDays_Original ==
    SixDaysByWeek =>
        LET out == gen.filteredData[1].val
        IN  /\ Len(out.byDay) = 4
            /\ out.totalCost = QInt(200)
            /\ out.byModel[1].val.cost = QMul(QInt(200), QDiv(QInt(200), QInt(300)))

\* C23, amended: filtering by week the record with totalCost 300, one model
\* of cost 300 and six days of cost 50, four of them in the window, yields
\* totalCost 200 and a filtered model cost of 300 x (200/300) = 200.
C23_SixDays ==
    SixDaysByWeek =>
        LET out == gen.filteredData[1].val
        IN  /\ Len(out.byDay) = 4
            /\ out.totalCost = QInt(200)
            /\ out.byModel[1].val.cost = QMul(QInt(300), QDiv(QInt(200), QInt(300)))
            /\ out.byModel[1].val.cost = QInt(200)

\* the week filter applied to the record of the tests, late in the day
C23_Witness ==
    /\ SixDaysByWeek
    /\ gen.times = <<EndOfDayMs>>
    /\ Keys(gen.filteredData[1].val.byDay) = {Today, Today - 1, Today - 2, Today - 4}

\* C24: filterByPeriod is idempotent for a fixed reference day: filtering the
\* filtered record again with the same period gives the same totalCost, token
\* totals, byModel and byDay, so generateFromData, which filters and then
\* calls processData with the same period, processes the record a single
\* filter gives.
C24_FilterIdempotent ==
    gen.processed # <<>> =>
        LET once == gen.filteredData[1].val
            twice == gen.processed[1].raw
        IN  /\ CostOr0(twice, "totalCost") = CostOr0(once, "totalCost")
            /\ \A j \in 1..Len(TokenFields) :
                  NumOr0(twice, TokenFields[j]) = NumOr0(once, TokenFields[j])
            /\ MapOf(twice, "byModel") = MapOf(once, "byModel")
            /\ MapOf(twice, "byDay") = MapOf(once, "byDay")
            /\ twice = once
            /\ gen.processed[1].summary = CalculateSummary(once)
            /\ gen.processed[1].models = GetModelBreakdown(once)
            /\ gen.processed[1].dailyUsage = GetDailyUsage(once, <<>>)

\* a week filter that dropped a day and scaled the tokens by a ratio other
\* than 0 and 1, filtered again at another time of the same day
C24_Witness ==
    /\ gen.processed # <<>>
    /\ genConfig.period = "week"
    /\ gen.times[1] # gen.times[2]
    /\ Len(MapOf(rawInput, "byDay")) = 2
    /\ Len(gen.processed[1].raw.byDay) = 1
    /\ gen.processed[1].raw.totalCost \notin {QZero, CostOr0(rawInput, "totalCost")}
    /\ gen.processed[1].raw.totalInputTokens # rawInput.totalInputTokens

\* the sum of cost, and of tokens, over the entries of usage that the filter
\* for period p keeps at the Date nowDate
KeptByFilter(usage, p, nowDate) ==
    LET kept == SelectSeq(usage,
                          LAMBDA e : IsDateInRange(e.date, GetPeriodRange(p, nowDate)))
    IN  [tokens |-> SumSeq([i \in 1..Len(kept) |-> kept[i].tokens]),
         cost |-> QSumSeq([i \in 1..Len(kept) |-> kept[i].cost])]

\* C30: the This Week and This Month figures of the SVG card sum exactly the
\* days that the week and month filters keep for the same reference day (7
\* and 30 days ending today, no later date), and the Today figure sums
\* exactly the day kept by the day filter.
C30_CardFigures ==
    (gen.pc = "done" /\ gen.card # <<>>) =>
        LET usage == gen.processed[1].dailyUsage
            nowDate == [day |-> Today, ms |-> gen.times[3]]
            card == gen.card[1]
        IN  /\ card.dailyTokens = KeptByFilter(usage, "day", nowDate).tokens
            /\ card.dailyCost = KeptByFilter(usage, "day", nowDate).cost
            /\ card.weeklyTokens = KeptByFilter(usage, "week", nowDate).tokens
            /\ card.weeklyCost = KeptByFilter(usage, "week", nowDate).cost
            /\ card.monthlyTokens = KeptByFilter(usage, "month", nowDate).tokens
            /\ card.monthlyCost = KeptByFilter(usage, "month", nowDate).cost

----------------------------------------------------------------------------
(* Properties of filterByPeriod for an unrecognized tag *)

\* C25: filterByPeriod called with a tag that is none of day, week, month,
\* all does not take the identity path: it keeps every byDay entry, sets
\* totalCost to the sum of all byDay costs, and rescales the token totals and
\* every byModel entry by that sum divided by the input totalCost (the ratio
\* being 0 when the input totalCost is 0).
C25_UnknownTagFilter ==
    (filtered # <<>> /\ period \notin {"day", "week", "month", "all"}) =>
        LET out == filtered[1].val
            r == ClaimedRatio(data, out)
        IN  /\ filtered[1].ref = 0
            /\ out.byDay = MapOf(data, "byDay")
            /\ out.totalCost =
                 QSumSeq([i \in 1..Len(out.byDay) |-> CostOr0(out.byDay[i].val, "cost")])
            /\ \A j \in 1..Len(TokenFields) :
                  out[TokenFields[j]] =
                     MathRound(QMul(QInt(NumOr0(data, TokenFields[j])), r))
            /\ Keys(out.byModel) = Keys(MapOf(data, "byModel"))
            /\ \A k \in Keys(MapOf(data, "byModel")) :
                  LET fm == MapGet(out.byModel, k)
                      om == MapGet(data.byModel, k)
                  IN  /\ fm.cost = QMul(CostOr0(om, "cost"), r)
                      /\ fm.inputTokens = MathRound(QMul(QInt(NumOr0(om, "inputTokens")), r))
                      /\ fm.outputTokens = MathRound(QMul(QInt(NumOr0(om, "outputTokens")), r))

====
